---- MODULE Spec2Model ----
(***************************************************************************)
(* Catalog synchronization and change-notification engine of the           *)
(* data-scout monorepo (IKEA circularity scraper).                         *)
(*                                                                         *)
(*   IkeaSyncService.syncProducts      diff + persistence of one store     *)
(*   IkeaCircularityScraper            paginated ingestion, per-store loop *)
(*   NotificationService / BotUserService   preference-filtered fan-out    *)
(*                                                                         *)
(* JavaScript values that may be undefined or null are modelled as tagged  *)
(* records, so that `!==`, `||` and the persistence round trip             *)
(* (removeUndefinedFields, JSON.stringify) are computed, not assumed.      *)
(***************************************************************************)
EXTENDS Integers, Sequences, FiniteSets, TLC

(***************************************************************************)
(* Bounds of the model.                                                    *)
(***************************************************************************)
MaxSnapshot == 2
MaxClock == 3
MaxPages == 3
MaxStores == 2
MaxChanged == 2
MaxItems == 2
MaxCategories == 2
MaxHandlers == 2

(***************************************************************************)
(* JavaScript values.                                                      *)
(***************************************************************************)
Undefined == [t |-> "undefined", n |-> 0, s |-> ""]
Null == [t |-> "null", n |-> 0, s |-> ""]
Num(n) == [t |-> "number", n |-> n, s |-> ""]
Str(s) == [t |-> "string", n |-> 0, s |-> s]

\* ToBoolean of a JavaScript value
Truthy(v) ==
  /\ v.t \notin {"undefined", "null"}
  /\ ~(v.t = "number" /\ v.n = 0)
  /\ ~(v.t = "string" /\ v.s = "")

\* a || b
OrElse(a, b) == IF Truthy(a) THEN a ELSE b

\* JSON.stringify of one array element: undefined and null both print "null"
JsonElement(v) ==
  CASE v.t \in {"undefined", "null"} -> "null"
    [] v.t = "number" -> ToString(v.n)
    [] OTHER -> "\"" \o v.s \o "\""

\* JSON.stringify of an array (the sequence of its elements' texts)
JsonStringify(arr) == [i \in DOMAIN arr |-> JsonElement(arr[i])]

(***************************************************************************)
(* Stores, offers and the products the normalizer emits for them.          *)
(* Strings that are concatenated are sequences of characters.              *)
(***************************************************************************)
StoreA == <<"1">>
StoreB == <<"2">>

Range(f) == {f[x] : x \in DOMAIN f}
Ids(seq) == {seq[i].id : i \in DOMAIN seq}

\* variant: the id is the one of the store
ProductIdOfStore(storeId, offerUuid) == storeId

\* id: `${store.id}-${offer.offerUuid}`
ProductId(storeId, offerUuid) == storeId \o <<"-">> \o offerUuid

(***************************************************************************)
(* The catalog API: raw items and HTTP responses.                          *)
(***************************************************************************)
PAGE_SIZE == 32

Arr(a) == [t |-> "array", a |-> a]
NoArr == [t |-> "undefined", a |-> <<>>]
NullArr == [t |-> "null", a |-> <<>>]

Offer(offerUuid, price, productConditionCode) ==
  [offerUuid |-> offerUuid, price |-> price,
   productConditionCode |-> productConditionCode]

\* media: the url of each entry
Item(title, offers, originalPrice, media, heroImage) ==
  [t |-> "object", title |-> title, offers |-> offers,
   originalPrice |-> originalPrice, media |-> media, heroImage |-> heroImage]

NullItem ==
  [t |-> "null", title |-> Undefined, offers |-> NoArr,
   originalPrice |-> Undefined, media |-> NoArr, heroImage |-> Undefined]

\* variant: only null items and items without an offer list are dropped
ValidItemLenient(item) == item.t # "null" /\ item.offers.t = "array"

\* the filter: is the item kept?
ValidItem(item) ==
  ~( \/ item.t = "null"
     \/ item.offers.t # "array"
     \/ Len(item.offers.a) = 0
     \/ ~Truthy(item.title) )

\* images: item.media?.map((img) => img.url) || (heroImage ? [heroImage] : [])
Images(item) ==
  IF item.media.t = "array" THEN item.media.a
  ELSE IF Truthy(item.heroImage) THEN <<item.heroImage>> ELSE <<>>

\* the product made of one offer of an item
OfferProduct(storeId, item, offer) ==
  [id |-> ProductId(storeId, offer.offerUuid),
   storeId |-> storeId,
   name |-> item.title,
   price |-> [current |-> offer.price, original |-> item.originalPrice],
   condition |-> offer.productConditionCode,
   images |-> Images(item),
   availability |-> "available"]

\* item.offers.map(...): one product per offer
ItemProducts(storeId, item) ==
  [i \in DOMAIN item.offers.a |-> OfferProduct(storeId, item, item.offers.a[i])]

\* response.content.filter(...).flatMap(...)
RECURSIVE Normalize(_, _)
Normalize(storeId, content) ==
  IF content = <<>> THEN <<>>
  ELSE (IF ValidItem(Head(content))
        THEN ItemProducts(storeId, Head(content)) ELSE <<>>)
       \o Normalize(storeId, Tail(content))

\* the items the catalog of a store can show in a run
RawCatalog(storeId) ==
  IF storeId = StoreA
  THEN { Item(Str("chair"), Arr(<<Offer(<<"a">>, Num(10), Str("used"))>>),
              Num(20), Arr(<<Str("i1")>>), Undefined),
         Item(Str("chair"), Arr(<<Offer(<<"a">>, Num(8), Str("used"))>>),
              Undefined, NoArr, Str("i1")),
         Item(Str("stool"), Arr(<<Offer(<<"a">>, Num(10), Undefined)>>),
              Num(20), Arr(<<Undefined>>), Undefined),
         Item(Str("lamp"), Arr(<<Offer(<<"b">>, Num(5), Str("new"))>>),
              Null, NullArr, Undefined) }
  ELSE { Item(Str("desk"), Arr(<<Offer(<<"c">>, Num(7), Str("used"))>>),
              Undefined, Arr(<<>>), Str("i3")) }

\* the products the normalizer makes of them
CatalogOf(storeId) ==
  UNION {Range(ItemProducts(storeId, item)) : item \in RawCatalog(storeId)}

RECURSIVE SeqsUpTo(_, _)
SeqsUpTo(S, n) ==
  IF n = 0 THEN {<<>>}
  ELSE LET shorter == SeqsUpTo(S, n - 1)
       IN shorter \cup {Append(q, x) : q \in shorter, x \in S}

\* the snapshots one ingestion run of a store can produce
SnapshotsA == SeqsUpTo(CatalogOf(StoreA), MaxSnapshot)
SnapshotsB == SeqsUpTo(CatalogOf(StoreB), MaxSnapshot)
Snapshots(storeId) == IF storeId = StoreA THEN SnapshotsA ELSE SnapshotsB

(***************************************************************************)
(* State.                                                                  *)
(***************************************************************************)
VARIABLES
  config,     \* config.stores: the ids of the stores of the run, in order
  faulty,     \* can a call of the persistence gateway throw in this run?
  products,   \* collection ikea_products: document key -> document
  clock,      \* wall clock, read by `new Date()`
  lastSync,   \* the last syncProducts call: arguments, outcome, gateway log
  firstSeenLog, \* history: the firstSeen first assigned to each product id
  remote,     \* the catalog API: store id -> responses to page 0, 1, 2, ...
  fetch,      \* fetchAllProducts: its locals and the log of its requests
  categoriesApi, \* the categories API: store id -> its response
  stores,     \* collection ikea_stores: document key -> document
  categories, \* collection ikea_categories: document key -> document
  scrape,     \* scrape(): its position, its locals and results, its log
  storeSync,  \* the last syncAllStores or syncStore call made on its own
  categorySync, \* the last fetchCategories + syncCategories made on its own
  notifyConfig, \* NotificationServiceConfig
  users,      \* collection bot_users: document key -> document
  prefs,      \* collection bot_user_preferences: user id -> preferences
  telegram,   \* the Telegram API: chat id -> how it answers a send
  dispatch,   \* a notify* call: its position, its locals, the log of sends
  bot         \* the bot: the calls of BotUserService and the handlers in flight

envVars == <<config, faulty>>
syncVars == <<products, clock, lastSync, firstSeenLog>>
fetchVars == <<remote, fetch>>
scrapeVars == <<categoriesApi, stores, categories, scrape, storeSync,
                categorySync>>
notifyVars == <<notifyConfig, users, prefs, telegram, dispatch, bot>>
vars == <<config, faulty, products, clock, lastSync, firstSeenLog,
          remote, fetch, categoriesApi, stores, categories, scrape,
          storeSync, categorySync, notifyConfig, users, prefs, telegram,
          dispatch, bot>>


(***************************************************************************)
(* FirestoreStorageAdapter.                                                *)
(***************************************************************************)
\* removeUndefinedFields: an undefined field is dropped (it reads back as
\* undefined), an undefined array element becomes null, null stays null
RemoveUndefinedFields(doc) ==
  IF "images" \notin DOMAIN doc THEN doc
  ELSE [doc EXCEPT !.images =
          [i \in DOMAIN doc.images |->
             IF doc.images[i].t = "undefined" THEN Null ELSE doc.images[i]]]

\* save(data, docId): set the cleaned document under docId
Save(coll, doc, docId) ==
  [k \in DOMAIN coll \cup {docId} |->
     IF k = docId THEN RemoveUndefinedFields(doc) ELSE coll[k]]

\* delete(docId)
Delete(coll, docId) == [k \in DOMAIN coll \ {docId} |-> coll[k]]

\* variant: the query returns the documents of every store
QueryEveryStore(coll, storeId) == DOMAIN coll

\* query('storeId', '==', value): the keys of the matching documents
Query(coll, storeId) == {k \in DOMAIN coll : coll[k].storeId = storeId}

\* variant: deleteByQuery deletes nothing
DeleteByQueryNothing(coll, storeId) == coll

\* deleteByQuery('storeId', '==', value): one batch for all the matches
DeleteByQuery(coll, storeId) ==
  [k \in DOMAIN coll \ Query(coll, storeId) |-> coll[k]]

\* the orders in which a query can return a set of documents
Orders(S) == {q \in SeqsUpTo(S, Cardinality(S)) :
                Len(q) = Cardinality(S) /\ Range(q) = S}

(***************************************************************************)
(* BrowserHttpClient and the paginated ingestion of IkeaCircularityScraper. *)
(***************************************************************************)
Response(status, content) == [status |-> status, content |-> content]

\* httpClient.get: a non-2xx answer is rejected; on 429 the response
\* interceptor waits 5-10 s first and then rejects all the same
HttpGet(resp) ==
  [threw |-> resp.status # 200,
   waited |-> resp.status = 429,
   data |-> resp]

\* fetchProductsPage: the products of one page; [] when the request threw or
\* the response has no content
FetchProductsPage(storeId, resp) ==
  LET got == HttpGet(resp)
  IN IF got.threw THEN <<>>
     ELSE IF got.data.content.t # "array" THEN <<>>
     ELSE Normalize(storeId, got.data.content.a)

\* variant: a page of exactly PAGE_SIZE products is taken for the last one
IsLastPageInclusive(pageProducts) == Len(pageProducts) <= PAGE_SIZE

\* products.length < this.PAGE_SIZE
IsLastPage(pageProducts) == Len(pageProducts) < PAGE_SIZE

\* the answer of the API for page `page` (0-based); past the last page of
\* the catalog it answers with an empty content
PageAt(pages, page) ==
  IF page + 1 \in DOMAIN pages THEN pages[page + 1]
  ELSE Response(200, Arr(<<>>))

NoFetch ==
  [storeId |-> <<>>, currentPage |-> 0, hasMorePages |-> FALSE,
   allProducts |-> <<>>, requests |-> <<>>, yields |-> <<>>, waits |-> 0]

\* variant: the products of the last store are fetched, whichever store the
\* loop is at
StartFetchAhead(storeId) ==
  [storeId |-> <<ToString(MaxStores)>>, currentPage |-> 0,
   hasMorePages |-> TRUE, allProducts |-> <<>>, requests |-> <<>>,
   yields |-> <<>>, waits |-> 0]

\* the locals of fetchAllProducts at its start
StartFetch(storeId) ==
  [storeId |-> storeId, currentPage |-> 0, hasMorePages |-> TRUE,
   allProducts |-> <<>>, requests |-> <<>>, yields |-> <<>>, waits |-> 0]

\* variant: a page whose request failed is skipped and the next one requested
FetchIterationSkipErrors(f, got, pageProducts) ==
  LET logged == [f EXCEPT !.requests = Append(f.requests, f.currentPage),
                          !.yields = Append(f.yields, Len(pageProducts)),
                          !.waits = IF got.waited
                                    THEN f.waits + 1 ELSE f.waits]
  IN IF got.threw
     THEN [logged EXCEPT !.currentPage = f.currentPage + 1]
     ELSE IF Len(pageProducts) = 0
     THEN [logged EXCEPT !.hasMorePages = FALSE]
     ELSE [logged EXCEPT
             !.allProducts = f.allProducts \o pageProducts,
             !.currentPage = f.currentPage + 1,
             !.hasMorePages = ~IsLastPage(pageProducts)]

\* one iteration of `while (hasMorePages)`; fetchProductsPage catches every
\* error itself, so the catch of fetchAllProducts is never entered
FetchIteration(f, got, pageProducts) ==
  LET logged == [f EXCEPT !.requests = Append(f.requests, f.currentPage),
                          !.yields = Append(f.yields, Len(pageProducts)),
                          !.waits = IF got.waited
                                    THEN f.waits + 1 ELSE f.waits]
  IN IF Len(pageProducts) = 0
     THEN [logged EXCEPT !.hasMorePages = FALSE]
     ELSE [logged EXCEPT
             !.allProducts = f.allProducts \o pageProducts,
             !.currentPage = f.currentPage + 1,
             !.hasMorePages = ~IsLastPage(pageProducts)]

FetchPage ==
  /\ fetch.hasMorePages
  /\ \E resp \in {PageAt(remote[fetch.storeId], fetch.currentPage)} :
     \E pageProducts \in {FetchProductsPage(fetch.storeId, resp)} :
       fetch' = FetchIteration(fetch, HttpGet(resp), pageProducts)
  /\ UNCHANGED <<envVars, syncVars, remote, scrapeVars, notifyVars>>

\* pages of the catalog of a store, by kind; offers are numbered by page so
\* that the pages of one catalog hold different offers
PageOffer(page, i) ==
  Offer(<<"p", ToString(page), "o", ToString(i)>>, Num(5), Str("used"))

PageItem(page, i) ==
  Item(Str("shelf"), Arr(<<PageOffer(page, i)>>), Undefined, NoArr, Undefined)

TwoOfferItem(page, i) ==
  Item(Str("shelf"), Arr(<<PageOffer(page, i), PageOffer(page, i + PAGE_SIZE)>>),
       Undefined, NoArr, Undefined)

NoOfferItem == Item(Str("shelf"), Arr(<<>>), Undefined, NoArr, Undefined)

\* the malformed items of the filter, and an offer without a price
NoOfferListItem == Item(Str("shelf"), NoArr, Undefined, NoArr, Undefined)

NoTitleItem(page, i) ==
  Item(Undefined, Arr(<<PageOffer(page, i)>>), Undefined, NoArr, Undefined)

UnpricedItem(page, i) ==
  Item(Str("shelf"),
       Arr(<<Offer(<<"p", ToString(page), "o", ToString(i)>>,
                   Undefined, Str("used"))>>),
       Undefined, NoArr, Undefined)

\* items with pictures: media and a hero image, an empty media list and a
\* hero image, a hero image alone
PicturedItem(page, i, media, heroImage) ==
  Item(Str("shelf"), Arr(<<PageOffer(page, i)>>), Undefined, media, heroImage)

\* the items one page of the catalog can hold
RawItems ==
  {PageItem(0, 1), PageItem(0, 2), TwoOfferItem(0, 1), NullItem, NoOfferItem,
   NoOfferListItem, NoTitleItem(0, 3), UnpricedItem(0, 4),
   PicturedItem(0, 5, Arr(<<Str("m1"), Str("m2")>>), Str("h")),
   PicturedItem(0, 6, Arr(<<>>), Str("h")),
   PicturedItem(0, 7, NoArr, Str("h"))}

\* a page of five single-offer items, one of them without offers
FiveItemPage ==
  <<PageItem(0, 1), PageItem(0, 2), NoOfferItem, PageItem(0, 3),
    PageItem(0, 4)>>

\* the contents of one page: up to MaxItems items, and the page of five
PageContents == SeqsUpTo(RawItems, MaxItems) \cup {FiveItemPage}

PageKinds == {"full", "short", "empty", "over", "holed", "429", "500"}

MakePage(kind, page) ==
  CASE kind = "full" ->
         Response(200, Arr([i \in 1..PAGE_SIZE |-> PageItem(page, i)]))
    [] kind = "short" -> Response(200, Arr(<<PageItem(page, 1)>>))
    [] kind = "empty" -> Response(200, Arr(<<>>))
    [] kind = "over" ->
         Response(200, Arr([i \in 1..PAGE_SIZE |->
                              IF i = 1 THEN TwoOfferItem(page, i)
                              ELSE PageItem(page, i)]))
    [] kind = "holed" ->
         Response(200, Arr([i \in 1..PAGE_SIZE |->
                              IF i = 1 THEN NoOfferItem
                              ELSE PageItem(page, i)]))
    [] kind = "429" -> Response(429, NoArr)
    [] OTHER -> Response(500, NoArr)

MakePages(kinds) == [i \in DOMAIN kinds |-> MakePage(kinds[i], i - 1)]

FetchCatalogs == {MakePages(kinds) : kinds \in SeqsUpTo(PageKinds, MaxPages)}


(***************************************************************************)
(* IkeaSyncService.syncProducts.                                           *)
(***************************************************************************)
\* existingProductsMap.has(id) / .get(id): the map is filled in query order,
\* a later document with the same id replaces an earlier one
MapHas(existing, id) == \E i \in DOMAIN existing : existing[i].id = id
MapGet(existing, id) ==
  LET last == CHOOSE i \in DOMAIN existing :
                /\ existing[i].id = id
                /\ \A j \in DOMAIN existing : existing[j].id = id => j <= i
  IN existing[last]

\* variant: only the prices are compared
HasChangedPriceOnly(existingProduct, product) ==
  \/ existingProduct.price.current # product.price.current
  \/ existingProduct.price.original # product.price.original

\* variant: every persisted product of the snapshot is written again
HasChangedAlways(existingProduct, product) == TRUE

\* hasChanged: the six compared fields
HasChanged(existingProduct, product) ==
  \/ existingProduct.name # product.name
  \/ existingProduct.price.current # product.price.current
  \/ existingProduct.price.original # product.price.original
  \/ existingProduct.availability # product.availability
  \/ existingProduct.condition # OrElse(product.condition, Str(""))
  \/ JsonStringify(existingProduct.images) # JsonStringify(product.images)

\* variant: every change of a compared field counts as a price change
PriceChangedOnAnyChange(existingProduct, product) ==
  HasChanged(existingProduct, product)

\* priceChanged
PriceChanged(existingProduct, product) ==
  \/ existingProduct.price.current # product.price.current
  \/ existingProduct.price.original # product.price.original

\* the document written for a snapshot product
ProductDocument(product, firstSeen, lastSeen) ==
  [id |-> product.id,
   storeId |-> product.storeId,
   name |-> product.name,
   price |-> [current |-> product.price.current,
              original |-> product.price.original],
   condition |-> OrElse(product.condition, Str("")),
   images |-> product.images,
   availability |-> product.availability,
   firstSeen |-> firstSeen,
   lastSeen |-> lastSeen]

\* variant: the update stamps firstSeen anew
UpdatedProductFresh(product, existingProduct, now) ==
  ProductDocument(product, now, now)

\* variant: the update carries the persisted lastSeen over
UpdatedProductStale(product, existingProduct, now) ==
  ProductDocument(product, existingProduct.firstSeen,
                  existingProduct.lastSeen)

\* updatedProduct: keeps the persisted firstSeen
UpdatedProduct(product, existingProduct, now) ==
  ProductDocument(product, existingProduct.firstSeen, now)

\* newProduct: firstSeen is the time of the call
NewProduct(product, now) == ProductDocument(product, now, now)

\* does the next gateway write throw?  (the query is gateway call 1)
WriteThrows(acc, failAt) == failAt = Len(acc.writes) + 2

\* one iteration of `for (const product of newProducts)`
UpsertStep(acc, existing, product, now, failAt) ==
  IF acc.threw THEN acc
  ELSE IF MapHas(existing, product.id)
  THEN LET existingProduct == MapGet(existing, product.id) IN
       IF HasChanged(existingProduct, product)
       THEN IF WriteThrows(acc, failAt) THEN [acc EXCEPT !.threw = TRUE]
            ELSE [acc EXCEPT
                   !.db = Save(acc.db,
                               UpdatedProduct(product, existingProduct, now),
                               product.id),
                   !.writes = Append(acc.writes,
                                     [op |-> "save", id |-> product.id]),
                   !.updated = acc.updated + 1,
                   !.updatedIds = Append(acc.updatedIds, product.id),
                   !.priceChangedProducts =
                      IF PriceChanged(existingProduct, product)
                      THEN Append(acc.priceChangedProducts, product)
                      ELSE acc.priceChangedProducts]
       ELSE acc
  ELSE IF WriteThrows(acc, failAt) THEN [acc EXCEPT !.threw = TRUE]
       ELSE [acc EXCEPT
              !.db = Save(acc.db, NewProduct(product, now), product.id),
              !.writes = Append(acc.writes,
                                [op |-> "save", id |-> product.id]),
              !.added = acc.added + 1,
              !.addedProducts = Append(acc.addedProducts, product)]

RECURSIVE UpsertLoop(_, _, _, _, _, _)
UpsertLoop(acc, existing, newProducts, i, now, failAt) ==
  IF i > Len(newProducts) THEN acc
  ELSE UpsertLoop(UpsertStep(acc, existing, newProducts[i], now, failAt),
                  existing, newProducts, i + 1, now, failAt)

\* existingProductsMap.keys(): the ids in order of first insertion
MapKeys(existing) ==
  SelectSeq([i \in DOMAIN existing |->
               IF \E j \in 1..(i - 1) : existing[j].id = existing[i].id
               THEN <<>> ELSE existing[i].id],
            LAMBDA k : k # <<>>)

\* variant: the removal loop forgets the membership test
ToRemoveAlways(newProducts, productId) == TRUE

\* is this persisted id to be removed?  (!newProductIds.has(productId))
ToRemove(newProducts, productId) == productId \notin Ids(newProducts)

\* variant: the removal loop deletes nothing
RemoveStepKeeping(acc, existing, newProducts, productId, failAt) == acc

\* one iteration of `for (const productId of existingProductsMap.keys())`
RemoveStep(acc, existing, newProducts, productId, failAt) ==
  IF acc.threw \/ ~ToRemove(newProducts, productId) THEN acc
  ELSE IF WriteThrows(acc, failAt)
       THEN [acc EXCEPT !.threw = TRUE,
               !.removedProducts =
                  Append(acc.removedProducts, MapGet(existing, productId))]
       ELSE [acc EXCEPT
              !.db = Delete(acc.db, productId),
              !.writes = Append(acc.writes,
                                [op |-> "delete", id |-> productId]),
              !.removed = acc.removed + 1,
              !.removedProducts =
                 Append(acc.removedProducts, MapGet(existing, productId))]

RECURSIVE RemoveLoop(_, _, _, _, _, _)
RemoveLoop(acc, existing, newProducts, keys, i, failAt) ==
  IF i > Len(keys) THEN acc
  ELSE RemoveLoop(RemoveStep(acc, existing, newProducts, keys[i], failAt),
                  existing, newProducts, keys, i + 1, failAt)

\* variant: the removal loop runs before the loop over the snapshot
SyncProductsRemovingFirst(db, storeId, newProducts, order, now, failAt) ==
  LET existing == [i \in DOMAIN order |-> db[order[i]]]
      start == [db |-> db, added |-> 0, updated |-> 0, removed |-> 0,
                addedProducts |-> <<>>, removedProducts |-> <<>>,
                priceChangedProducts |-> <<>>, updatedIds |-> <<>>,
                writes |-> <<>>, threw |-> FALSE]
  IN IF failAt = 1 THEN [start EXCEPT !.threw = TRUE]
     ELSE UpsertLoop(RemoveLoop(start, existing, newProducts,
                                MapKeys(existing), 1, failAt),
                     existing, newProducts, 1, now, failAt)

\* syncProducts(storeId, newProducts), run at time `now`; `order` is the
\* order in which the query returns the store's documents and `failAt` the
\* gateway call that throws (0: none)
SyncProducts(db, storeId, newProducts, order, now, failAt) ==
  LET existing == [i \in DOMAIN order |-> db[order[i]]]
      start == [db |-> db, added |-> 0, updated |-> 0, removed |-> 0,
                addedProducts |-> <<>>, removedProducts |-> <<>>,
                priceChangedProducts |-> <<>>, updatedIds |-> <<>>,
                writes |-> <<>>, threw |-> FALSE]
  IN IF failAt = 1 THEN [start EXCEPT !.threw = TRUE]
     ELSE RemoveLoop(UpsertLoop(start, existing, newProducts, 1, now, failAt),
                     existing, newProducts, MapKeys(existing), 1, failAt)

\* the gateway calls a syncProducts call can make
GatewayCalls(db, storeId, newProducts) ==
  1 + Len(newProducts) + Cardinality(Query(db, storeId))

\* which gateway call throws: none (0) when the gateway is reliable
FailPoints(calls) == IF faulty THEN 0..calls ELSE {0}

NoSync ==
  [called |-> FALSE, storeId |-> <<>>, snapshot |-> <<>>, existing |-> <<>>,
   added |-> 0, updated |-> 0, removed |-> 0, addedProducts |-> <<>>,
   removedProducts |-> <<>>, priceChangedProducts |-> <<>>,
   updatedIds |-> <<>>, writes |-> <<>>, threw |-> FALSE, at |-> 0]

\* what the model remembers of a call
SyncRecord(db, storeId, newProducts, order, now, r) ==
  [called |-> TRUE, storeId |-> storeId, snapshot |-> newProducts,
   existing |-> [i \in DOMAIN order |-> db[order[i]]],
   added |-> r.added, updated |-> r.updated, removed |-> r.removed,
   addedProducts |-> r.addedProducts, removedProducts |-> r.removedProducts,
   priceChangedProducts |-> r.priceChangedProducts,
   updatedIds |-> r.updatedIds, writes |-> r.writes, threw |-> r.threw,
   at |-> now]

\* history: a save of an id never saved before assigns its first firstSeen,
\* which is the time of the call (NewProduct)
LogFirstSeen(log, writes, now) ==
  LET saved == {writes[i].id : i \in {j \in DOMAIN writes :
                                         writes[j].op = "save"}}
  IN [k \in DOMAIN log \cup saved |->
        IF k \in DOMAIN log THEN log[k] ELSE now]

\* a call of syncProducts on its own
SyncProductsCall ==
  /\ clock < MaxClock
  /\ \E storeId \in Range(config) :
     \E newProducts \in Snapshots(storeId) :
     \E order \in Orders(Query(products, storeId)) :
     \E failAt \in FailPoints(GatewayCalls(products, storeId, newProducts)) :
     \E r \in {SyncProducts(products, storeId, newProducts, order,
                            clock + 1, failAt)} :
       /\ products' = r.db
       /\ clock' = clock + 1
       /\ lastSync' = SyncRecord(products, storeId, newProducts, order,
                                 clock + 1, r)
       /\ firstSeenLog' = LogFirstSeen(firstSeenLog, r.writes, clock + 1)
  /\ UNCHANGED <<envVars, fetchVars, scrapeVars, notifyVars>>


(***************************************************************************)
(* IkeaSyncService.syncStore and syncCategories.                           *)
(***************************************************************************)
\* the IkeaStore of the configuration with the given id
StoreId(i) == <<ToString(i)>>

StoreInfo(storeId) ==
  [id |-> storeId, name |-> Str("IKEA"), city |-> Undefined,
   region |-> Undefined, country |-> Str("IT")]

StoreDocument(store, productsCount, categoriesCount, now) ==
  [id |-> store.id,
   name |-> store.name,
   city |-> OrElse(store.city, Str("")),
   region |-> OrElse(store.region, Str("")),
   country |-> store.country,
   lastSync |-> now,
   productsCount |-> productsCount,
   categoriesCount |-> categoriesCount]

\* syncStore(store, productsCount, categoriesCount): one save, which throws
\* when failAt = 1
SyncStore(db, store, productsCount, categoriesCount, now, failAt) ==
  IF failAt = 1 THEN [db |-> db, threw |-> TRUE]
  ELSE [db |-> Save(db, StoreDocument(store, productsCount,
                                      categoriesCount, now), store.id),
        threw |-> FALSE]

\* getAll() of the stores collection, as a Map keyed by the id of the
\* document
ExistingStoresMap(db) == [k \in {db[d].id : d \in DOMAIN db} |->
                            db[CHOOSE d \in DOMAIN db : db[d].id = k]]

\* variant: saving a store of the list drops every other store document
SyncAllStoresStepPruning(acc, existing, store, now) ==
  [acc EXCEPT !.db = [k \in {store.id} |->
                        StoreDocument(store, 0, 0, now)]]

\* one iteration of `for (const store of activeStores)`
SyncAllStoresStep(acc, existing, store, now) ==
  IF store.id \in DOMAIN existing
  THEN LET existingStore == existing[store.id] IN
       IF existingStore.name # store.name \/ existingStore.city # store.city
       THEN [acc EXCEPT
               !.db = Save(acc.db,
                           StoreDocument(store, existingStore.productsCount,
                                         existingStore.categoriesCount, now),
                           store.id),
               !.updated = acc.updated + 1]
       ELSE acc
  ELSE [acc EXCEPT
          !.db = Save(acc.db, StoreDocument(store, 0, 0, now), store.id),
          !.added = acc.added + 1,
          !.newStores = Append(acc.newStores, store)]

RECURSIVE SyncAllStoresLoop(_, _, _, _, _)
SyncAllStoresLoop(acc, existing, activeStores, i, now) ==
  IF i > Len(activeStores) THEN acc
  ELSE SyncAllStoresLoop(SyncAllStoresStep(acc, existing, activeStores[i], now),
                         existing, activeStores, i + 1, now)

\* syncAllStores(activeStores): the collection afterwards and the result
SyncAllStores(db, activeStores, now) ==
  LET existing == ExistingStoresMap(db)
      done == SyncAllStoresLoop([db |-> db, added |-> 0, updated |-> 0,
                                 newStores |-> <<>>],
                                existing, activeStores, 1, now)
      activeStoreIds == Ids(activeStores)
  IN [db |-> done.db, added |-> done.added, updated |-> done.updated,
      skipped |-> Cardinality({k \in DOMAIN existing :
                                 k \notin activeStoreIds}),
      newStores |-> done.newStores]

NoStoreSync ==
  [call |-> "none", activeStoreIds |-> {}, added |-> 0, updated |-> 0,
   skipped |-> 0]

\* the stores the website can list: each store under its name or renamed,
\* with or without a city
StoreListings(storeId) ==
  { StoreInfo(storeId),
    [StoreInfo(storeId) EXCEPT !.name = Str("IKEA 2")],
    [StoreInfo(storeId) EXCEPT !.city = Str("Roma")] }

\* the lists of active stores: some of the stores, in the order of their
\* numbers
RECURSIVE ActiveStoreLists(_)
ActiveStoreLists(n) ==
  IF n = 0 THEN {<<>>}
  ELSE LET shorter == ActiveStoreLists(n - 1)
       IN shorter \cup {Append(q, st) : q \in shorter,
                                         st \in StoreListings(StoreId(n))}

\* a call of syncAllStores with the list of the active stores
SyncAllStoresCall ==
  /\ clock < MaxClock
  /\ \E activeStores \in ActiveStoreLists(MaxStores) :
     \E r \in {SyncAllStores(stores, activeStores, clock + 1)} :
       /\ stores' = r.db
       /\ storeSync' = [call |-> "syncAllStores",
                        activeStoreIds |-> Ids(activeStores),
                        added |-> r.added, updated |-> r.updated,
                        skipped |-> r.skipped]
  /\ clock' = clock + 1
  /\ UNCHANGED <<envVars, products, lastSync, firstSeenLog, fetchVars,
                 categoriesApi, categories, scrape, categorySync,
                 notifyVars>>

\* a call of syncStore for one store, with the counts of a scrape
SyncStoreCall ==
  /\ clock < MaxClock
  /\ \E i \in 1..MaxStores :
     \E store \in StoreListings(StoreId(i)) :
     \E productsCount \in {0, PAGE_SIZE} :
     \E r \in {SyncStore(stores, store, productsCount, 1, clock + 1, 0)} :
       /\ stores' = r.db
       /\ storeSync' = [NoStoreSync EXCEPT !.call = "syncStore",
                                           !.activeStoreIds = {store.id}]
  /\ clock' = clock + 1
  /\ UNCHANGED <<envVars, products, lastSync, firstSeenLog, fetchVars,
                 categoriesApi, categories, scrape, categorySync,
                 notifyVars>>

CategoryDocument(category, storeId, now) ==
  [id |-> category.id,
   name |-> category.name,
   description |-> OrElse(category.description, Str("")),
   imageUrl |-> OrElse(category.imageUrl, Str("")),
   productCount |-> OrElse(category.productCount, Num(0)),
   storeId |-> storeId,
   lastSync |-> now]

\* `${storeId}-${category.id}`
CategoryKey(storeId, category) == storeId \o <<"-">> \o category.id

\* `for (const category of categories)`: the save of category i is gateway
\* call i + 1 of syncCategories
RECURSIVE SaveCategories(_, _, _, _, _, _)
SaveCategories(db, storeId, cats, i, now, failAt) ==
  IF i > Len(cats) THEN [db |-> db, threw |-> FALSE]
  ELSE IF failAt = i + 1 THEN [db |-> db, threw |-> TRUE]
  ELSE SaveCategories(Save(db, CategoryDocument(cats[i], storeId, now),
                           CategoryKey(storeId, cats[i])),
                      storeId, cats, i + 1, now, failAt)

\* syncCategories(storeId, categories): deleteByQuery is gateway call 1
SyncCategories(db, storeId, cats, now, failAt) ==
  IF failAt = 1 THEN [db |-> db, threw |-> TRUE]
  ELSE SaveCategories(DeleteByQuery(db, storeId), storeId, cats, 1, now,
                      failAt)

(***************************************************************************)
(* IkeaCircularityScraper.scrape.                                          *)
(***************************************************************************)
\* fetchCategories(store): [] when the request threw or the answer is not an
\* array
FetchCategories(resp) ==
  LET got == HttpGet(resp)
  IN IF got.threw THEN <<>>
     ELSE IF got.data.content.t # "array" THEN <<>>
     ELSE [i \in DOMAIN got.data.content.a |->
             [id |-> <<ToString(got.data.content.a[i].id)>>,
              name |-> got.data.content.a[i].name,
              description |-> got.data.content.a[i].category_code,
              imageUrl |-> Undefined,
              productCount |-> Undefined]]

NoCategorySync ==
  [called |-> FALSE, storeId |-> <<>>, status |-> 0, categories |-> <<>>,
   persistedBefore |-> 0]

\* the answers of the categories API for a store: the lists of some of the
\* categories, in the order of their numbers, an answer that is no array,
\* and a failed request
RECURSIVE CategoryLists(_)
CategoryLists(n) ==
  IF n = 0 THEN {<<>>}
  ELSE LET shorter == CategoryLists(n - 1)
       IN shorter \cup
          {Append(q, [id |-> 6 + n, name |-> Str("sofas"),
                      category_code |-> Str("SOFA")]) : q \in shorter}

CategoryAnswers ==
  {Response(200, Arr(list)) : list \in CategoryLists(MaxCategories)}
    \cup {Response(200, NoArr), Response(500, NoArr)}

\* fetchCategories(store) followed by syncCategories(store.id, categories),
\* as scrape() calls them
FetchAndSyncCategoriesCall ==
  /\ clock < MaxClock
  /\ \E storeId \in {StoreA, StoreB} :
     \E resp \in CategoryAnswers :
     \E cats \in {FetchCategories(resp)} :
     \E r \in {SyncCategories(categories, storeId, cats, clock + 1, 0)} :
       /\ categories' = r.db
       /\ categorySync' = [called |-> TRUE, storeId |-> storeId,
                           status |-> resp.status, categories |-> cats,
                           persistedBefore |->
                             Cardinality(Query(categories, storeId))]
  /\ clock' = clock + 1
  /\ UNCHANGED <<envVars, products, lastSync, firstSeenLog, fetchVars,
                 categoriesApi, stores, scrape, storeSync, notifyVars>>

NoResults ==
  [stores |-> <<>>, totalProducts |-> 0, totalCategories |-> 0,
   totalAdded |-> 0, totalUpdated |-> 0, totalRemoved |-> 0]

NoScrape ==
  [pc |-> "idle", index |-> 0, categories |-> <<>>, results |-> NoResults,
   attempted |-> <<>>, failed |-> <<>>]

\* scrape() at `for (const store of config.stores)`
StartScrape(stores_) ==
  [pc |-> IF Len(stores_) = 0 THEN "returned" ELSE "fetchCategories",
   index |-> 1, categories |-> <<>>, results |-> NoResults,
   attempted |-> <<>>, failed |-> <<>>]

\* variant: the loop leaves out the store after the current one
NextStoreSkipping(s) ==
  [s EXCEPT !.index = s.index + 2,
            !.categories = <<>>,
            !.pc = IF s.index + 2 > Len(config) THEN "returned"
                   ELSE "fetchCategories"]

\* the loop moves to the next store, or scrape() returns its results
NextStore(s) ==
  [s EXCEPT !.index = s.index + 1,
            !.categories = <<>>,
            !.pc = IF s.index + 1 > Len(config) THEN "returned"
                   ELSE "fetchCategories"]

\* variant: the error of a store leaves the loop and scrape()
CatchStoreErrorRethrow(s) ==
  [s EXCEPT !.failed = Append(s.failed, config[s.index]), !.pc = "threw"]

\* catch (error) { console.error(...) }: continue with the next store
CatchStoreError(s) ==
  NextStore([s EXCEPT !.failed = Append(s.failed, config[s.index])])

\* variant: the removed products are left out of the totals
AccumulateWithoutRemoved(s, storeId, syncStats, productsCount) ==
  NextStore(
    [s EXCEPT
       !.results =
          [stores |-> Append(s.results.stores, storeId),
           totalProducts |-> s.results.totalProducts + productsCount,
           totalCategories |-> s.results.totalCategories + Len(s.categories),
           totalAdded |-> s.results.totalAdded + syncStats.added,
           totalUpdated |-> s.results.totalUpdated + syncStats.updated,
           totalRemoved |-> s.results.totalRemoved]])

\* the end of the try block: totals and results.stores.push
Accumulate(s, storeId, syncStats, productsCount) ==
  NextStore(
    [s EXCEPT
       !.results =
          [stores |-> Append(s.results.stores, storeId),
           totalProducts |-> s.results.totalProducts + productsCount,
           totalCategories |-> s.results.totalCategories + Len(s.categories),
           totalAdded |-> s.results.totalAdded + syncStats.added,
           totalUpdated |-> s.results.totalUpdated + syncStats.updated,
           totalRemoved |-> s.results.totalRemoved + syncStats.removed]])

\* const categories = await this.fetchCategories(store)
ScrapeFetchCategories ==
  /\ scrape.pc = "fetchCategories"
  /\ scrape' = [scrape EXCEPT
                  !.pc = "fetchAllProducts",
                  !.attempted = Append(scrape.attempted, config[scrape.index]),
                  !.categories =
                     FetchCategories(categoriesApi[config[scrape.index]])]
  /\ fetch' = StartFetch(config[scrape.index])
  /\ UNCHANGED <<envVars, syncVars, remote, categoriesApi, stores,
                 categories, storeSync, categorySync, notifyVars>>

\* await this.syncService.syncStore(store, products.length,
\* categories.length), once fetchAllProducts has returned
ScrapeSyncStore ==
  /\ scrape.pc = "fetchAllProducts"
  /\ ~fetch.hasMorePages
  /\ \E failAt \in FailPoints(1) :
     \E r \in {SyncStore(stores, StoreInfo(config[scrape.index]),
                         Len(fetch.allProducts), Len(scrape.categories),
                         clock + 1, failAt)} :
       /\ stores' = r.db
       /\ scrape' = IF r.threw THEN CatchStoreError(scrape)
                    ELSE [scrape EXCEPT !.pc = "syncCategories"]
  /\ clock' = clock + 1
  /\ UNCHANGED <<envVars, products, lastSync, firstSeenLog, fetchVars,
                 categoriesApi, categories, storeSync, categorySync, notifyVars>>

\* await this.syncService.syncCategories(store.id, categories)
ScrapeSyncCategories ==
  /\ scrape.pc = "syncCategories"
  /\ \E failAt \in FailPoints(1 + Len(scrape.categories)) :
     \E r \in {SyncCategories(categories, config[scrape.index],
                              scrape.categories, clock + 1, failAt)} :
       /\ categories' = r.db
       /\ scrape' = IF r.threw THEN CatchStoreError(scrape)
                    ELSE [scrape EXCEPT !.pc = "syncProducts"]
  /\ clock' = clock + 1
  /\ UNCHANGED <<envVars, products, lastSync, firstSeenLog, fetchVars,
                 categoriesApi, stores, storeSync, categorySync, notifyVars>>

\* const syncStats = await this.syncService.syncProducts(store.id, products)
\* and the rest of the try block
ScrapeSyncProducts ==
  /\ scrape.pc = "syncProducts"
  /\ \E storeId \in {config[scrape.index]} :
     \E order \in Orders(Query(products, storeId)) :
     \E failAt \in FailPoints(GatewayCalls(products, storeId,
                                           fetch.allProducts)) :
     \E r \in {SyncProducts(products, storeId, fetch.allProducts, order,
                            clock + 1, failAt)} :
       /\ products' = r.db
       /\ lastSync' = SyncRecord(products, storeId, fetch.allProducts, order,
                                 clock + 1, r)
       /\ firstSeenLog' = LogFirstSeen(firstSeenLog, r.writes, clock + 1)
       /\ scrape' = IF r.threw THEN CatchStoreError(scrape)
                    ELSE Accumulate(scrape, storeId, r,
                                    Len(fetch.allProducts))
  /\ clock' = clock + 1
  /\ UNCHANGED <<envVars, fetchVars, categoriesApi, stores, categories,
                 storeSync, categorySync, notifyVars>>

\* the answers of the categories API
CategoryResponses ==
  { Response(200, Arr(<<[id |-> 7, name |-> Str("sofas"),
                         category_code |-> Str("SOFA")]>>)),
    Response(500, NoArr) }

\* the catalogs of a scrape run: one product, a failing request, or a page
\* of an item without offers
ScrapeCatalogs ==
  { <<MakePage("short", 0)>>, <<MakePage("500", 0)>>,
    <<Response(200, Arr(<<NoOfferItem>>))>> }

\* documents of an earlier run: a product of page 0 at another price and a
\* product that is no longer in any catalog
SeedProduct(storeId, offerUuid, price) ==
  ProductDocument(
    OfferProduct(storeId, PageItem(0, 1), Offer(offerUuid, price, Str("used"))),
    0, 0)

SeedProducts ==
  LET a == SeedProduct(StoreId(1), PageOffer(0, 1).offerUuid, Num(9))
      b == SeedProduct(StoreId(1), <<"g">>, Num(3))
  IN Save(Save(<< >>, a, a.id), b, b.id)

(***************************************************************************)
(* BotUserService.                                                         *)
(***************************************************************************)
\* query('userId', '==', userId) on bot_users: the keys of the matches
UsersWithId(coll, userId) == {k \in DOMAIN coll : coll[k].userId = userId}

\* deactivateUser(userId): the first user whose userId is the argument, if
\* there is one, is saved with isActive = false under that key
DeactivateUser(coll, userId) ==
  IF UsersWithId(coll, userId) = {} THEN coll
  ELSE LET user == coll[CHOOSE k \in UsersWithId(coll, userId) : TRUE]
       IN [k \in DOMAIN coll \cup {userId} |->
             IF k = userId THEN [user EXCEPT !.isActive = FALSE]
             ELSE coll[k]]

\* getOrCreateUser(userId, chatId, ...): the first user whose userId is the
\* argument is saved with the chat id and isActive = true; a new user is
\* created active
GetOrCreateUser(coll, userId, chatId) ==
  LET found == UsersWithId(coll, userId)
      saved == IF found = {}
               THEN [userId |-> userId, chatId |-> chatId, isActive |-> TRUE]
               ELSE [coll[CHOOSE k \in found : TRUE]
                       EXCEPT !.chatId = chatId, !.isActive = TRUE]
  IN [k \in DOMAIN coll \cup {userId} |->
        IF k = userId THEN saved ELSE coll[k]]

\* variant: the activity of the user is not looked at
GetUsersSubscribedToStoreAnyActivity(userColl, prefColl, storeId, order) ==
  LET Picked(userId) ==
        /\ storeId \in prefColl[userId].subscribedStores
        /\ UsersWithId(userColl, userId) # {}
      picked == SelectSeq(order, Picked)
  IN [i \in DOMAIN picked |->
        userColl[CHOOSE k \in UsersWithId(userColl, picked[i]) : TRUE].chatId]

\* getUsersSubscribedToStore(storeId): for each preference document, in the
\* order `order` of getAll, that lists the store, the chat id of the first
\* user with that userId, if there is one and it is active
GetUsersSubscribedToStore(userColl, prefColl, storeId, order) ==
  LET Picked(userId) ==
        /\ storeId \in prefColl[userId].subscribedStores
        /\ UsersWithId(userColl, userId) # {}
        /\ userColl[CHOOSE k \in UsersWithId(userColl, userId) : TRUE].isActive
      picked == SelectSeq(order, Picked)
  IN [i \in DOMAIN picked |->
        userColl[CHOOSE k \in UsersWithId(userColl, picked[i]) : TRUE].chatId]

\* initializePreferences: the default preferences
DefaultPreferences ==
  [subscribedStores |-> {}, notifyOnNewProducts |-> TRUE,
   notifyOnRemovedProducts |-> TRUE, notifyOnPriceChanges |-> FALSE]

\* getUserPreferences(userId) followed by `if (!prefs) prefs = await
\* initializePreferences(userId)`: the collection afterwards and the
\* document the caller holds
ReadPreferences(prefColl, userId) ==
  IF userId \in DOMAIN prefColl
  THEN [prefs |-> prefColl, doc |-> prefColl[userId]]
  ELSE [prefs |-> [k \in DOMAIN prefColl \cup {userId} |->
                     IF k = userId THEN DefaultPreferences ELSE prefColl[k]],
        doc |-> DefaultPreferences]

\* the mutations of the preferences: what each makes of the document it
\* read
Mutated(doc, op) ==
  CASE op.name = "subscribeToStore" ->
         [doc EXCEPT !.subscribedStores = @ \cup {op.storeId}]
    [] op.name = "unsubscribeFromStore" ->
         [doc EXCEPT !.subscribedStores = @ \ {op.storeId}]
    [] OTHER -> [doc EXCEPT !.notifyOnPriceChanges = op.value]

\* does the mutation save the document it holds?  subscribeToStore saves
\* only when the store was not in the list; unsubscribeFromStore returns
\* after initializePreferences when there was no document
Saves(doc, op, existed) ==
  CASE op.name = "subscribeToStore" -> op.storeId \notin doc.subscribedStores
    [] op.name = "unsubscribeFromStore" -> existed
    [] OTHER -> TRUE

\* preferencesAdapter.save(prefs, `${userId}-ikea-circularity`): the whole
\* document the caller holds
SavePreferences(prefColl, userId, doc, op) ==
  [k \in DOMAIN prefColl \cup {userId} |->
     IF k = userId THEN Mutated(doc, op) ELSE prefColl[k]]

\* no call of the bot yet
NoBot == [log |-> <<>>, handlers |-> <<>>]

\* is the user of a preference document active and subscribed to the store?
SubscribedAndActive(userColl, prefColl, storeId, userId) ==
  /\ storeId \in prefColl[userId].subscribedStores
  /\ UsersWithId(userColl, userId) # {}
  /\ userColl[userId].isActive

\* getUsersSubscribedToStoreWithPreferences(storeId): the active users whose
\* preferences subscribe them to the store, each with its chat id and its
\* preferences, in the order `order` of the preference documents
GetUsersSubscribedToStoreWithPreferences(userColl, prefColl, storeId, order) ==
  LET Picked(userId) ==
        SubscribedAndActive(userColl, prefColl, storeId, userId)
      picked == SelectSeq(order, Picked)
  IN [i \in DOMAIN picked |->
        [userId |-> picked[i], chatId |-> userColl[picked[i]].chatId,
         preferences |-> prefColl[picked[i]]]]

(***************************************************************************)
(* NotificationService.                                                    *)
(***************************************************************************)
\* variant: a server error of Telegram is taken for "this chat is gone" too
PermanentOrServerError(outcome) ==
  outcome \in {"403", "400 chat not found", "500"}

\* a Telegram error that the service takes for "this chat is gone"
Permanent(outcome) == outcome \in {"403", "400 chat not found"}

\* sendTextMessage(chatId, message): the users collection afterwards,
\* whether the message was sent, and the sends attempted
SendTextMessage(coll, chatId) ==
  LET outcome == telegram[chatId].text
      attempt == <<[chatId |-> chatId, method |-> "text",
                    outcome |-> outcome]>>
  IN IF ~notifyConfig.bot
     THEN [users |-> coll, sent |-> FALSE, attempts |-> <<>>]
     ELSE IF outcome = "ok"
     THEN [users |-> coll, sent |-> TRUE, attempts |-> attempt]
     ELSE IF Permanent(outcome)
     THEN [users |-> DeactivateUser(coll, chatId), sent |-> FALSE,
           attempts |-> attempt]
     ELSE [users |-> coll, sent |-> FALSE, attempts |-> attempt]

\* sendPhotoMessage(chatId, photoUrl, caption): any failure of sendPhoto
\* falls back to sendTextMessage
SendPhotoMessage(coll, chatId) ==
  LET outcome == telegram[chatId].photo
      attempt == <<[chatId |-> chatId, method |-> "photo",
                    outcome |-> outcome]>>
      fallback == SendTextMessage(coll, chatId)
  IN IF ~notifyConfig.bot
     THEN [users |-> coll, sent |-> FALSE, attempts |-> <<>>]
     ELSE IF outcome = "ok"
     THEN [users |-> coll, sent |-> TRUE, attempts |-> attempt]
     ELSE [fallback EXCEPT !.attempts = attempt \o fallback.attempts]

\* format*Message(...).photo: the first image of the product, if any
Photo(product) ==
  IF Len(product.images) > 0 THEN product.images[1] ELSE Undefined

\* the preference flag of each kind of notification
WantsAdded(u) == u.preferences.notifyOnNewProducts
WantsRemoved(u) == u.preferences.notifyOnRemovedProducts
WantsPriceChanges(u) == u.preferences.notifyOnPriceChanges

\* variant: every kind of notification is filtered by notifyOnNewProducts
UsersWantingAdded(subscribedUsers, kind) ==
  SelectSeq(subscribedUsers, WantsAdded)

\* subscribedUsers.filter((u) => u.preferences.<flag of the kind>)
UsersWantingNotifications(subscribedUsers, kind) ==
  CASE kind = "added" -> SelectSeq(subscribedUsers, WantsAdded)
    [] kind = "removed" -> SelectSeq(subscribedUsers, WantsRemoved)
    [] OTHER -> SelectSeq(subscribedUsers, WantsPriceChanges)

NoDispatch ==
  [pc |-> "idle", kind |-> "none", storeId |-> <<>>, products |-> <<>>,
   recipients |-> <<>>, i |-> 0, j |-> 0, sends |-> <<>>,
   successCount |-> 0, failureCount |-> 0, previewed |-> 0]

\* variant: the environment is not looked at, every enabled dispatch sends
StartDispatchInAnyEnvironment(kind, storeId, changed, subscribedUsers) ==
  LET recipients == UsersWantingNotifications(subscribedUsers, kind)
      call == [NoDispatch EXCEPT !.kind = kind, !.storeId = storeId,
                                 !.products = changed, !.pc = "returned"]
  IN IF ~notifyConfig.enabled \/ Len(changed) = 0 THEN call
     ELSE IF Len(recipients) = 0
     THEN call
     ELSE [call EXCEPT !.recipients = recipients, !.pc = "sending",
                       !.i = 1, !.j = 1]

\* notifyProductsAdded / notifyProductsRemoved / notifyPriceChanges up to
\* the send loop: the early returns, the recipients, the development preview
StartDispatch(kind, storeId, changed, subscribedUsers) ==
  LET recipients == UsersWantingNotifications(subscribedUsers, kind)
      call == [NoDispatch EXCEPT !.kind = kind, !.storeId = storeId,
                                 !.products = changed, !.pc = "returned"]
  IN IF ~notifyConfig.enabled \/ Len(changed) = 0 THEN call
     ELSE IF Len(recipients) = 0
     THEN call
     ELSE IF notifyConfig.environment = "development"
     THEN [call EXCEPT !.recipients = recipients,
                       !.previewed = IF Len(changed) < 2 THEN Len(changed)
                                     ELSE 2]
     ELSE [call EXCEPT !.recipients = recipients, !.pc = "sending",
                       !.i = 1, !.j = 1]

\* one iteration of `for (const u of usersWantingNotifications)` inside
\* `for (const product of products)`
SendIteration(d, coll) ==
  LET u == d.recipients[d.j]
      r == IF Truthy(Photo(d.products[d.i]))
           THEN SendPhotoMessage(coll, u.chatId)
           ELSE SendTextMessage(coll, u.chatId)
      lastUser == d.j = Len(d.recipients)
      lastProduct == d.i = Len(d.products)
      sends == [k \in DOMAIN r.attempts |->
                  [product |-> d.i, chatId |-> r.attempts[k].chatId,
                   method |-> r.attempts[k].method,
                   outcome |-> r.attempts[k].outcome]]
  IN [users |-> r.users,
      dispatch |->
        [d EXCEPT
           !.sends = d.sends \o sends,
           !.successCount = IF r.sent THEN d.successCount + 1
                            ELSE d.successCount,
           !.failureCount = IF r.sent THEN d.failureCount
                            ELSE d.failureCount + 1,
           !.j = IF lastUser THEN 1 ELSE d.j + 1,
           !.i = IF lastUser THEN d.i + 1 ELSE d.i,
           !.pc = IF lastUser /\ lastProduct THEN "returned"
                  ELSE "sending"]]

\* the products of a change-set: the first has an image, the second none
ChangedProducts(storeId) ==
  << OfferProduct(storeId,
                  Item(Str("chair"), Arr(<<Offer(<<"a">>, Num(10), Str("used"))>>),
                       Num(20), Arr(<<Str("i1")>>), Undefined),
                  Offer(<<"a">>, Num(10), Str("used"))),
     OfferProduct(storeId, PageItem(0, 1), PageOffer(0, 1)) >>

\* a change-set of n products
ChangeSet(storeId, n) ==
  [i \in 1..n |-> ChangedProducts(storeId)[((i - 1) % 2) + 1]]

\* a call of notifyProductsAdded, notifyProductsRemoved or
\* notifyPriceChanges for a store
Notify ==
  /\ dispatch.pc = "idle"
  /\ \E kind \in {"added", "removed", "priceChanged"} :
     \E n \in 1..MaxChanged :
     \E order \in Orders(DOMAIN prefs) :
       dispatch' = StartDispatch(kind, StoreA, ChangeSet(StoreA, n),
                     GetUsersSubscribedToStoreWithPreferences(
                       users, prefs, StoreA, order))
  /\ UNCHANGED <<envVars, syncVars, fetchVars, scrapeVars, notifyConfig,
                 users, prefs, telegram, bot>>

\* the next send of the dispatch
Send ==
  /\ dispatch.pc = "sending"
  /\ \E r \in {SendIteration(dispatch, users)} :
       /\ users' = r.users
       /\ dispatch' = r.dispatch
  /\ UNCHANGED <<envVars, syncVars, fetchVars, scrapeVars, notifyConfig,
                 prefs, telegram, bot>>

\* the users of a run: one who talks to the bot in a private chat, whose
\* chat id is the user id, and one who registered from a group chat
PrivateUser == "100"
GroupUser == "200"
GroupChat == "-900"

BotUser(userId, chatId, isActive) ==
  [userId |-> userId, chatId |-> chatId, isActive |-> isActive]

Preferences(subscribedStores, new, removed, price) ==
  [subscribedStores |-> subscribedStores, notifyOnNewProducts |-> new,
   notifyOnRemovedProducts |-> removed, notifyOnPriceChanges |-> price]

\* how a chat answers sendPhoto and sendMessage
ChatAnswers ==
  { [photo |-> "ok", text |-> "ok"],
    [photo |-> "403", text |-> "403"],
    [photo |-> "400 chat not found", text |-> "400 chat not found"],
    [photo |-> "400 wrong file", text |-> "ok"],
    [photo |-> "500", text |-> "500"] }

NotifyConfigs ==
  { [enabled |-> TRUE, environment |-> "production", bot |-> TRUE],
    [enabled |-> TRUE, environment |-> "development", bot |-> TRUE],
    [enabled |-> FALSE, environment |-> "production", bot |-> TRUE],
    [enabled |-> TRUE, environment |-> "production", bot |-> FALSE] }

\* a call of getOrCreateUser, from a private chat or from the group chat
GetOrCreateUserCall ==
  /\ Len(bot.log) < MaxClock
  /\ \E userId \in {PrivateUser, GroupUser} :
     \E chatId \in {userId, GroupChat} :
       /\ users' = GetOrCreateUser(users, userId, chatId)
       /\ bot' = [bot EXCEPT !.log = Append(@, [op |-> "getOrCreateUser",
                                                 userId |-> userId,
                                                 storeId |-> <<>>,
                                                 result |-> <<>>])]
  /\ UNCHANGED <<envVars, syncVars, fetchVars, scrapeVars, notifyConfig,
                 prefs, telegram, dispatch>>

\* a call of deactivateUser(userId)
DeactivateUserCall ==
  /\ Len(bot.log) < MaxClock
  /\ \E userId \in {PrivateUser, GroupUser} :
       /\ users' = DeactivateUser(users, userId)
       /\ bot' = [bot EXCEPT !.log = Append(@, [op |-> "deactivateUser",
                                                 userId |-> userId,
                                                 storeId |-> <<>>,
                                                 result |-> <<>>])]
  /\ UNCHANGED <<envVars, syncVars, fetchVars, scrapeVars, notifyConfig,
                 prefs, telegram, dispatch>>

\* a call of getUsersSubscribedToStore(storeId)
GetUsersSubscribedToStoreCall ==
  /\ Len(bot.log) < MaxClock
  /\ \E storeId \in {StoreA, StoreB} :
     \E order \in Orders(DOMAIN prefs) :
       bot' = [bot EXCEPT !.log =
                 Append(@, [op |-> "getUsersSubscribedToStore",
                            userId |-> "",
                            storeId |-> storeId,
                            result |-> GetUsersSubscribedToStore(
                                         users, prefs, storeId, order)])]
  /\ UNCHANGED <<envVars, syncVars, fetchVars, scrapeVars, notifyConfig,
                 users, prefs, telegram, dispatch>>

\* the mutations a handler can be asked for
Mutations ==
  { [name |-> "subscribeToStore", storeId |-> StoreA, value |-> FALSE],
    [name |-> "unsubscribeFromStore", storeId |-> StoreB, value |-> FALSE],
    [name |-> "updatePreferences", storeId |-> <<>>, value |-> TRUE] }

\* a handler of an update starts a mutation: it reads the preference
\* document of the user (and creates it when there is none)
HandlerRead ==
  /\ Len(bot.handlers) < MaxHandlers
  /\ \E userId \in {PrivateUser, GroupUser} :
     \E op \in Mutations :
     \E r \in {ReadPreferences(prefs, userId)} :
       /\ prefs' = r.prefs
       /\ bot' = [bot EXCEPT !.handlers =
                    Append(@, [pc |-> "read", userId |-> userId, op |-> op,
                               doc |-> r.doc,
                               existed |-> userId \in DOMAIN prefs])]
  /\ UNCHANGED <<envVars, syncVars, fetchVars, scrapeVars, notifyConfig,
                 users, telegram, dispatch>>

\* a handler that has read goes on: it saves the document it holds, changed
\* by its mutation, or returns without a save
HandlerSave ==
  /\ \E h \in DOMAIN bot.handlers :
       /\ bot.handlers[h].pc = "read"
       /\ prefs' = IF Saves(bot.handlers[h].doc, bot.handlers[h].op,
                            bot.handlers[h].existed)
                   THEN SavePreferences(prefs, bot.handlers[h].userId,
                                        bot.handlers[h].doc,
                                        bot.handlers[h].op)
                   ELSE prefs
       /\ bot' = [bot EXCEPT !.handlers[h].pc = "done"]
  /\ UNCHANGED <<envVars, syncVars, fetchVars, scrapeVars, notifyConfig,
                 users, telegram, dispatch>>

(***************************************************************************)
(* Specifications.                                                         *)
(***************************************************************************)
SyncIdle ==
  /\ products = << >>
  /\ firstSeenLog = << >>
  /\ clock = 0
  /\ lastSync = NoSync

FetchIdle == remote = << >> /\ fetch = NoFetch

ScrapeIdle ==
  /\ categoriesApi = << >>
  /\ stores = << >>
  /\ categories = << >>
  /\ scrape = NoScrape
  /\ storeSync = NoStoreSync
  /\ categorySync = NoCategorySync

NotifyIdle ==
  /\ notifyConfig = [enabled |-> FALSE, environment |-> "development",
                     bot |-> FALSE]
  /\ users = << >>
  /\ prefs = << >>
  /\ telegram = << >>
  /\ dispatch = NoDispatch
  /\ bot = NoBot

\* syncProducts called again and again for the stores of the run
SyncInit ==
  /\ config = <<StoreA>>
  /\ faulty = FALSE
  /\ SyncIdle
  /\ FetchIdle
  /\ ScrapeIdle
  /\ NotifyIdle

SpecSync == SyncInit /\ [][SyncProductsCall]_vars

\* fetchAllProducts(store) on its own, against any catalog
FetchInit ==
  /\ config = <<StoreA>>
  /\ faulty = FALSE
  /\ SyncIdle
  /\ remote \in [{StoreA} -> FetchCatalogs]
  /\ fetch = StartFetch(StoreA)
  /\ ScrapeIdle
  /\ NotifyIdle

SpecFetch == FetchInit /\ [][FetchPage]_vars /\ WF_vars(FetchPage)

\* fetchProductsPage(store, 0) on one page of raw items, through
\* fetchAllProducts
PageInit ==
  /\ \E storeId \in {StoreA, StoreB} :
       /\ config = <<storeId>>
       /\ remote \in [{storeId} -> {<<Response(200, Arr(content))>> :
                                      content \in PageContents}]
       /\ fetch = StartFetch(storeId)
  /\ faulty = FALSE
  /\ SyncIdle
  /\ ScrapeIdle
  /\ NotifyIdle

SpecPage == PageInit /\ [][FetchPage]_vars /\ WF_vars(FetchPage)

\* the store-list synchronization: syncAllStores and syncStore called again
\* and again, on a collection that is empty at first
StoresInit ==
  /\ config = <<>>
  /\ faulty = FALSE
  /\ SyncIdle
  /\ FetchIdle
  /\ ScrapeIdle
  /\ NotifyIdle

StoresNext == SyncAllStoresCall \/ SyncStoreCall

SpecStores == StoresInit /\ [][StoresNext]_vars

\* the categories of the stores fetched and synchronized again and again, on
\* a collection that is empty at first
CategoriesInit ==
  /\ config = <<StoreA, StoreB>>
  /\ faulty = FALSE
  /\ SyncIdle
  /\ FetchIdle
  /\ ScrapeIdle
  /\ NotifyIdle

SpecCategories == CategoriesInit /\ [][FetchAndSyncCategoriesCall]_vars

\* BotUserService: two registered users, subscribed to some stores, and the
\* calls that register, deactivate and select them
UsersInit ==
  /\ config = <<StoreA, StoreB>>
  /\ faulty = FALSE
  /\ SyncIdle
  /\ FetchIdle
  /\ ScrapeIdle
  /\ notifyConfig = [enabled |-> FALSE, environment |-> "development",
                     bot |-> FALSE]
  /\ \E chatId \in {PrivateUser, GroupChat} :
       users = [u \in {PrivateUser, GroupUser} |->
                  IF u = PrivateUser THEN BotUser(u, chatId, TRUE)
                  ELSE BotUser(u, GroupChat, TRUE)]
  /\ \E sa \in SUBSET {StoreA, StoreB} :
       prefs = [u \in {PrivateUser, GroupUser} |->
                  IF u = PrivateUser
                  THEN [DefaultPreferences EXCEPT !.subscribedStores = sa]
                  ELSE [DefaultPreferences EXCEPT
                          !.subscribedStores = {StoreA}]]
  /\ telegram = << >>
  /\ dispatch = NoDispatch
  /\ bot = NoBot

UsersNext ==
  \/ GetOrCreateUserCall
  \/ DeactivateUserCall
  \/ GetUsersSubscribedToStoreCall

SpecUsers == UsersInit /\ [][UsersNext]_vars

\* the handlers of the updates of the bot: mutations of the preferences
\* whose reads and saves interleave
HandlersInit ==
  /\ config = <<StoreA, StoreB>>
  /\ faulty = FALSE
  /\ SyncIdle
  /\ FetchIdle
  /\ ScrapeIdle
  /\ notifyConfig = [enabled |-> FALSE, environment |-> "development",
                     bot |-> FALSE]
  /\ users = [u \in {PrivateUser, GroupUser} |->
                BotUser(u, IF u = PrivateUser THEN u ELSE GroupChat, TRUE)]
  /\ \E sb \in SUBSET {StoreB} :
       prefs \in { << >>,
                   [u \in {PrivateUser} |->
                      [DefaultPreferences EXCEPT !.subscribedStores = sb]] }
  /\ telegram = << >>
  /\ dispatch = NoDispatch
  /\ bot = NoBot

HandlersNext == HandlerRead \/ HandlerSave

SpecHandlers == HandlersInit /\ [][HandlersNext]_vars

\* one run of scrape() over the stores of the configuration, with a
\* persistence gateway that may or may not throw
ScrapeInit ==
  /\ config = [i \in 1..MaxStores |-> StoreId(i)]
  /\ faulty \in BOOLEAN
  /\ products \in {<< >>, SeedProducts}
  /\ firstSeenLog = [k \in DOMAIN products |-> products[k].firstSeen]
  /\ clock = 0
  /\ lastSync = NoSync
  /\ remote \in [Range(config) -> ScrapeCatalogs]
  /\ fetch = NoFetch
  /\ categoriesApi \in [Range(config) -> CategoryResponses]
  /\ stores = << >>
  /\ categories = << >>
  /\ scrape = StartScrape(config)
  /\ storeSync = NoStoreSync
  /\ categorySync = NoCategorySync
  /\ NotifyIdle

ScrapeNext ==
  \/ ScrapeFetchCategories
  \/ FetchPage
  \/ ScrapeSyncStore
  \/ ScrapeSyncCategories
  \/ ScrapeSyncProducts

SpecScrape == ScrapeInit /\ [][ScrapeNext]_vars /\ WF_vars(ScrapeNext)

\* one notify* call of the NotificationService for a change-set of StoreA
NotifyInit ==
  /\ config = <<StoreA>>
  /\ faulty = FALSE
  /\ SyncIdle
  /\ FetchIdle
  /\ ScrapeIdle
  /\ notifyConfig \in NotifyConfigs
  /\ \E active \in BOOLEAN :
       users = [u \in {PrivateUser, GroupUser} |->
                  IF u = PrivateUser THEN BotUser(u, u, TRUE)
                  ELSE BotUser(u, GroupChat, active)]
  /\ \E sa \in SUBSET {StoreA}, sb \in SUBSET {StoreA},
        new \in BOOLEAN, removed \in BOOLEAN, price \in BOOLEAN,
        priceB \in BOOLEAN :
       prefs = [u \in {PrivateUser, GroupUser} |->
                  IF u = PrivateUser THEN Preferences(sa, new, removed, price)
                  ELSE Preferences(sb, TRUE, TRUE, priceB)]
  /\ telegram \in [{PrivateUser, GroupChat} -> ChatAnswers]
  /\ dispatch = NoDispatch
  /\ bot = NoBot

NotifyNext == Notify \/ Send

SpecNotify == NotifyInit /\ [][NotifyNext]_vars

(***************************************************************************)
(* Properties of syncProducts.                                             *)
(***************************************************************************)
SyncReturned == lastSync.called /\ ~lastSync.threw

\* the persisted ids of the store when the last call started
PersistedBefore == Ids(lastSync.existing)

\* number of positions of a sequence that satisfy a test
CountWhere(seq, Test(_)) == Cardinality({i \in DOMAIN seq : Test(seq[i])})

\* C1: idempotence of product sync: once syncProducts(storeId, S) has
\* returned normally, a second syncProducts(storeId, S) with the same S
\* reports added = 0, updated = 0, removed = 0 and makes no save and no
\* delete.
C1_Idempotence ==
  [][ ( /\ SyncReturned
        /\ clock' # clock
        /\ ~lastSync'.threw
        /\ lastSync'.storeId = lastSync.storeId
        /\ lastSync'.snapshot = lastSync.snapshot )
      => ( /\ lastSync'.added = 0
           /\ lastSync'.updated = 0
           /\ lastSync'.removed = 0
           /\ lastSync'.writes = <<>> ) ]_vars

\* C2: partition of the change-set: added, updated and removed are pairwise
\* disjoint; every snapshot product is counted in exactly one of added,
\* updated or unchanged; every persisted product of the store whose id is
\* absent from the snapshot is counted exactly once in removed.
C2_Partition ==
  SyncReturned =>
    LET S == lastSync.snapshot
        A == Ids(lastSync.addedProducts)
        U == Range(lastSync.updatedIds)
        R == Ids(lastSync.removedProducts)
        IsNew(p) == p.id \notin PersistedBefore
        IsOld(p) == p.id \in PersistedBefore
    IN /\ A \cap U = {} /\ A \cap R = {} /\ U \cap R = {}
       /\ lastSync.added = CountWhere(S, IsNew)
       /\ lastSync.addedProducts = SelectSeq(S, IsNew)
       /\ lastSync.updated = Len(lastSync.updatedIds)
       /\ lastSync.updated <= CountWhere(S, IsOld)
       /\ U \subseteq PersistedBefore \cap Ids(S)
       /\ R = PersistedBefore \ Ids(S)
       /\ lastSync.removed = Cardinality(R)
       /\ Len(lastSync.removedProducts) = Cardinality(R)

\* C2 witness: a call that updated one product, removed another and left
\* nothing to add
C2_Witness ==
  /\ SyncReturned
  /\ lastSync.updated = 1
  /\ lastSync.removed = 1
  /\ lastSync.added = 0

\* C3 as stated: across any sequence of syncProducts cycles the persisted
\* firstSeen of a product id never changes after its first assignment.
C3_FirstSeenNeverChanges ==
  \A k \in DOMAIN products : products[k].firstSeen = firstSeenLog[k]

\* C3 amended: a product id that is persisted when a syncProducts call
\* starts and still persisted when it ends keeps its firstSeen (a product
\* that was removed and is observed again gets a new firstSeen).
C3_FirstSeenKept ==
  [][ \A k \in DOMAIN products \cap DOMAIN products' :
        products'[k].firstSeen = products[k].firstSeen ]_vars

\* C3 witness: a product updated in a later call than the one that added it
C3_Witness ==
  /\ SyncReturned
  /\ lastSync.updated >= 1
  /\ \E k \in Range(lastSync.updatedIds) :
       /\ k \in DOMAIN products
       /\ products[k].firstSeen < lastSync.at
       /\ products[k].lastSeen = lastSync.at

\* C4 as stated: every time a product id appears in the snapshot passed to
\* syncProducts its persisted lastSeen is refreshed, also when none of the
\* compared fields changed.
C4_LastSeenAlwaysRefreshed ==
  SyncReturned =>
    \A i \in DOMAIN lastSync.snapshot :
      products[lastSync.snapshot[i].id].lastSeen = lastSync.at

\* the persisted document shows the six compared fields of the product
ShowsProduct(doc, p) ==
  LET stored == RemoveUndefinedFields(ProductDocument(p, 0, 0))
  IN /\ doc.name = stored.name
     /\ doc.price = stored.price
     /\ doc.availability = stored.availability
     /\ doc.condition = stored.condition
     /\ doc.images = stored.images

\* C4 amended: lastSeen is refreshed when the product is added or when one
\* of the compared fields differs from the persisted document; a product
\* re-observed with all compared fields equal keeps its document, and so its
\* lastSeen.
C4_LastSeenRefreshedOnChange ==
  SyncReturned =>
    \A i \in DOMAIN lastSync.snapshot :
      LET id == lastSync.snapshot[i].id
          same == {j \in DOMAIN lastSync.snapshot :
                     lastSync.snapshot[j].id = id}
      IN IF id \in PersistedBefore
            /\ \A j \in same :
                 ShowsProduct(MapGet(lastSync.existing, id),
                              lastSync.snapshot[j])
         THEN products[id] = MapGet(lastSync.existing, id)
         ELSE products[id].lastSeen = lastSync.at

\* C4 witness: a call that re-observed one product unchanged (its lastSeen
\* is older than the call) and refreshed another
C4_Witness ==
  /\ SyncReturned
  /\ \E i, j \in DOMAIN lastSync.snapshot :
       /\ products[lastSync.snapshot[i].id].lastSeen < lastSync.at
       /\ products[lastSync.snapshot[j].id].lastSeen = lastSync.at
       /\ lastSync.snapshot[j].id \in PersistedBefore

\* the document read for an id at the start of the last call
ExistingOf(id) ==
  lastSync.existing[CHOOSE i \in DOMAIN lastSync.existing :
                      lastSync.existing[i].id = id]

\* the comparisons of the claim, on the persisted record and the snapshot
\* product
PriceDiffers(p) ==
  \/ ExistingOf(p.id).price.current # p.price.current
  \/ ExistingOf(p.id).price.original # p.price.original

OtherFieldDiffers(p) ==
  \/ ExistingOf(p.id).name # p.name
  \/ ExistingOf(p.id).availability # p.availability
  \/ ExistingOf(p.id).condition # OrElse(p.condition, Str(""))
  \/ JsonStringify(ExistingOf(p.id).images) # JsonStringify(p.images)

\* C14: priceChanged flag: a snapshot product that matches a persisted id
\* is reported in priceChangedProducts if and only if its price.current or
\* its price.original differs from the persisted record; a product updated
\* only because another compared field differs is counted in updated and
\* is not reported as price-changed.
C14_PriceChangedFlag ==
  SyncReturned =>
    LET S == lastSync.snapshot
        Matched(p) == p.id \in PersistedBefore
        Reported(p) == Matched(p) /\ PriceDiffers(p)
        OtherOnly(p) == Matched(p) /\ ~PriceDiffers(p) /\ OtherFieldDiffers(p)
        Updated(p) == Matched(p) /\ (PriceDiffers(p) \/ OtherFieldDiffers(p))
    IN /\ lastSync.priceChangedProducts = SelectSeq(S, Reported)
       /\ lastSync.updated = CountWhere(S, Updated)
       /\ \A i \in DOMAIN S :
            OtherOnly(S[i]) =>
              /\ S[i].id \in Range(lastSync.updatedIds)
              /\ S[i] \notin Range(lastSync.priceChangedProducts)

\* C14 witness: one product was updated for its price and reported, another
\* call state has a product updated only for its name and not reported
C14_Witness ==
  /\ SyncReturned
  /\ lastSync.updated = 1
  /\ lastSync.priceChangedProducts = <<>>
  /\ \E i \in DOMAIN lastSync.snapshot :
       /\ lastSync.snapshot[i].id \in PersistedBefore
       /\ ExistingOf(lastSync.snapshot[i].id).name # lastSync.snapshot[i].name

\* C15: unchanged products are not re-written: a snapshot product whose id
\* is persisted and whose name, price.current, price.original,
\* availability, condition and serialized images all equal the persisted
\* values causes no save (the saves of the call are those of the new and of
\* the changed products), and the persisted document of an id whose
\* snapshot products are all unchanged is left as it was.
C15_UnchangedNotRewritten ==
  SyncReturned =>
    LET S == lastSync.snapshot
        Matched(p) == p.id \in PersistedBefore
        Unchanged(p) ==
          Matched(p) /\ ~PriceDiffers(p) /\ ~OtherFieldDiffers(p)
        Written(p) == ~Unchanged(p)
        IsSave(w) == w.op = "save"
        saves == SelectSeq(lastSync.writes, IsSave)
        written == SelectSeq(S, Written)
    IN /\ [i \in DOMAIN saves |-> saves[i].id]
            = [i \in DOMAIN written |-> written[i].id]
       /\ \A id \in PersistedBefore :
            (/\ \E i \in DOMAIN S : S[i].id = id
             /\ \A i \in DOMAIN S : S[i].id = id => Unchanged(S[i]))
              => /\ id \in DOMAIN products
                 /\ products[id] = ExistingOf(id)

\* C15 witness: a call whose snapshot held a persisted, unchanged product
\* next to a new one: one save, for the new product only
C15_Witness ==
  /\ SyncReturned
  /\ Len(lastSync.snapshot) = 2
  /\ lastSync.added = 1
  /\ lastSync.updated = 0
  /\ \E i \in DOMAIN lastSync.snapshot :
       /\ lastSync.snapshot[i].id \in PersistedBefore
       /\ products[lastSync.snapshot[i].id]
            = ExistingOf(lastSync.snapshot[i].id)
  /\ Len(lastSync.writes) = 1

\* are the ids of the snapshot of the last call pairwise distinct?
DistinctIds(S) == \A i, j \in DOMAIN S : S[i].id = S[j].id => i = j

\* the persisted ids of the store of the last call
PersistedNow == {products[k].id : k \in {d \in DOMAIN products :
                                           products[d].storeId = lastSync.storeId}}

\* C26 (as stated): convergence of persistence to the snapshot: for a
\* snapshot S whose product ids are pairwise distinct, after
\* syncProducts(storeId, S) returns normally the persisted product ids of
\* the store are the ids of S, and for each id the persisted name,
\* price.current, price.original, availability, condition and images equal
\* those of the snapshot product.
C26_ConvergenceAsStated ==
  LET S == lastSync.snapshot IN
  (SyncReturned /\ DistinctIds(S)) =>
    /\ PersistedNow = Ids(S)
    /\ \A i \in DOMAIN S :
         /\ S[i].id \in DOMAIN products
         /\ products[S[i].id].name = S[i].name
         /\ products[S[i].id].price.current = S[i].price.current
         /\ products[S[i].id].price.original = S[i].price.original
         /\ products[S[i].id].availability = S[i].availability
         /\ products[S[i].id].condition = S[i].condition
         /\ products[S[i].id].images = S[i].images

\* what is stored for an image of the snapshot: undefined is stored as null
StoredImage(v) == IF v.t = "undefined" THEN Null ELSE v

\* C26 (amended): as above, where the persisted condition is the one of the
\* snapshot product, or '' when the snapshot product has none, and the
\* persisted images are those of the snapshot product with null in the
\* place of each undefined entry.
C26_Convergence ==
  LET S == lastSync.snapshot IN
  (SyncReturned /\ DistinctIds(S)) =>
    /\ PersistedNow = Ids(S)
    /\ \A i \in DOMAIN S :
         /\ S[i].id \in DOMAIN products
         /\ products[S[i].id].name = S[i].name
         /\ products[S[i].id].price.current = S[i].price.current
         /\ products[S[i].id].price.original = S[i].price.original
         /\ products[S[i].id].availability = S[i].availability
         /\ products[S[i].id].condition
              = (IF S[i].condition.t \in {"undefined", "null"}
                    \/ S[i].condition = Str("")
                 THEN Str("") ELSE S[i].condition)
         /\ products[S[i].id].images
              = [k \in DOMAIN S[i].images |-> StoredImage(S[i].images[k])]

\* C26 witness: a call has returned whose snapshot of two products replaced
\* a persisted product under another name and added a second one; the
\* persisted ids of the store are those of the snapshot
C26_Witness ==
  /\ SyncReturned
  /\ Len(lastSync.snapshot) = 2
  /\ DistinctIds(lastSync.snapshot)
  /\ lastSync.updated = 1
  /\ lastSync.added = 1
  /\ lastSync.priceChangedProducts = <<>>
  /\ PersistedNow = Ids(lastSync.snapshot)

(***************************************************************************)
(* Properties of scrape().                                                 *)
(***************************************************************************)
ScrapeReturned == scrape.pc = "returned"

\* the stores that scrape() has finished with, one way or the other
StoresLeft ==
  {config[i] : i \in {j \in DOMAIN config : j < scrape.index}}

FailureIsolation ==
  /\ scrape.pc # "threw"
  /\ Range(scrape.failed) \cup Range(scrape.results.stores) = StoresLeft
  /\ Range(scrape.failed) \cap Range(scrape.results.stores) = {}
  /\ ScrapeReturned => scrape.attempted = config

\* C5: store-scoped failure isolation: a step that throws for one store
\* inside scrape() is caught; it never leaves scrape(), every later store of
\* config.stores is still processed, and scrape() returns normally.
C5_FailureIsolation == []FailureIsolation /\ <>ScrapeReturned

\* C5 witness: the first store failed at a persistence step, the second
\* store was processed to the end, and scrape() has returned
C5_Witness ==
  /\ ScrapeReturned
  /\ scrape.failed = <<StoreId(1)>>
  /\ StoreId(2) \in Range(scrape.results.stores)

\* the store that scrape() is working on, if any
InStore == scrape.pc \notin {"idle", "returned", "threw"}
CurrentStore == config[scrape.index]

StepRank(pc) ==
  CASE pc = "fetchCategories" -> 1
    [] pc = "fetchAllProducts" -> 2
    [] pc = "syncCategories" -> 3
    [] pc = "syncProducts" -> 4
    [] OTHER -> 0

\* one step of scrape(): what it may write and where it leads
StepOrder ==
  /\ stores' # stores =>
       scrape.pc = "fetchAllProducts" /\ ~fetch.hasMorePages
  /\ categories' # categories => scrape.pc = "syncCategories"
  /\ products' # products => scrape.pc = "syncProducts"
  /\ fetch' # fetch => scrape.pc \in {"fetchCategories", "fetchAllProducts"}
  /\ scrape' # scrape =>
       \/ /\ scrape'.index = scrape.index
          /\ StepRank(scrape'.pc) = StepRank(scrape.pc) + 1
       \/ /\ scrape'.index = scrape.index + 1
          /\ scrape'.pc = IF scrape'.index > Len(config) THEN "returned"
                          ELSE "fetchCategories"
          /\ \/ /\ scrape.pc = "syncProducts"
                /\ scrape'.results.stores =
                     Append(scrape.results.stores, CurrentStore)
             \/ /\ scrape'.failed = Append(scrape.failed, CurrentStore)
                /\ \/ scrape.pc \in {"syncCategories", "syncProducts"}
                   \/ scrape.pc = "fetchAllProducts" /\ ~fetch.hasMorePages

OnlyStoreTouched(before, after, storeId) ==
  /\ \A k \in DOMAIN before :
       before[k].storeId # storeId => k \in DOMAIN after /\ after[k] = before[k]
  /\ \A k \in DOMAIN after :
       after[k].storeId # storeId => k \in DOMAIN before

SequentialStep ==
  /\ fetch' # fetch => InStore /\ fetch'.storeId = CurrentStore
  /\ stores' # stores =>
       /\ InStore
       /\ \A k \in DOMAIN stores' :
            k # CurrentStore => k \in DOMAIN stores /\ stores'[k] = stores[k]
  /\ categories' # categories =>
       InStore /\ OnlyStoreTouched(categories, categories', CurrentStore)
  /\ products' # products =>
       InStore /\ OnlyStoreTouched(products, products', CurrentStore)
  /\ scrape'.index # scrape.index =>
       /\ scrape'.index = scrape.index + 1
       /\ CurrentStore \in Range(scrape'.failed)
                             \cup Range(scrape'.results.stores)
       /\ scrape.pc = "syncProducts"
            \/ CurrentStore \in Range(scrape'.failed)

\* C13: stores are processed strictly sequentially: every fetch and every
\* persistence operation of a step is for the store the loop is at, and the
\* loop moves to store N+1 only when the last persistence operation of
\* store N has completed or the exception of store N has been caught.
C13_Sequential == [][SequentialStep]_vars

\* C13 witness: the loop is at the second store, about to call syncProducts
\* for it, after the first store was processed to the end
C13_Witness ==
  /\ scrape.pc = "syncProducts"
  /\ scrape.index = 2
  /\ scrape.results.stores = <<config[1]>>
  /\ fetch.storeId = config[2]
  /\ config[1] \in DOMAIN stores /\ config[2] \in DOMAIN stores

\* the writes of the call that is being made, and those the same call makes
\* when no gateway call throws
CallWrites == lastSync'.writes

CleanWrites ==
  SyncProducts(products, lastSync'.storeId, lastSync'.snapshot,
               [i \in DOMAIN lastSync'.existing |-> lastSync'.existing[i].id],
               lastSync'.at, 0).writes

\* the last write of an id among the writes of the call
LastWrite(w, id) ==
  w[CHOOSE i \in DOMAIN w :
      /\ w[i].id = id
      /\ \A j \in DOMAIN w : w[j].id = id => j <= i]

SequentialWrites ==
  lastSync' # lastSync =>
    LET w == CallWrites
        storeId == lastSync'.storeId
    IN /\ \A i, j \in DOMAIN w :
            (w[i].op = "delete" /\ w[j].op = "save") => j < i
       /\ Len(w) <= Len(CleanWrites)
       /\ w = SubSeq(CleanWrites, 1, Len(w))
       /\ (~lastSync'.threw => w = CleanWrites)
       /\ \A id \in (DOMAIN products \cup DOMAIN products') :
            IF \E i \in DOMAIN w : w[i].id = id
            THEN IF LastWrite(w, id).op = "save"
                 THEN /\ id \in DOMAIN products'
                      /\ products'[id].lastSeen = lastSync'.at
                 ELSE id \notin DOMAIN products'
            ELSE /\ id \in DOMAIN products /\ id \in DOMAIN products'
                 /\ products'[id] = products[id]
       /\ (lastSync'.threw =>
             /\ scrape'.failed = Append(scrape.failed, storeId)
             /\ scrape'.results = scrape.results
             /\ scrape'.index = scrape.index + 1
             /\ scrape'.pc \in {"fetchCategories", "returned"})

\* C23: persistence is sequential and non-atomic: within syncProducts the
\* saves and deletes are made one after the other, every upsert of the
\* snapshot loop before the first delete, and if a save or delete throws,
\* the writes already made stay applied, no further write of that call is
\* attempted, and the exception reaches the per-store catch of scrape().
C23_SequentialNonAtomic == [][SequentialWrites]_vars

\* C23 witness: the call for store 1 saved the product of the page, then
\* the delete of the product that is gone threw: the save is applied, the
\* product that was to be removed is still persisted, the store is among
\* the failed ones and scrape() went on and returned
C23_Witness ==
  /\ ScrapeReturned
  /\ lastSync.called
  /\ StoreId(1) \in Range(scrape.failed)
  /\ \E id \in DOMAIN products :
       /\ products[id].storeId = StoreId(1)
       /\ products[id].lastSeen > 0
       /\ products[id].price.current = Num(5)
  /\ \E id \in DOMAIN products :
       /\ products[id].storeId = StoreId(1)
       /\ products[id].lastSeen = 0
       /\ products[id].price.current = Num(3)

\* does the id start with the store id and a dash?
CarriesStore(id, storeId) ==
  /\ Len(id) > Len(storeId)
  /\ SubSeq(id, 1, Len(storeId) + 1) = storeId \o <<"-">>

CrossStoreFrame ==
  LET storeId == lastSync'.storeId
      S == lastSync'.snapshot
      read == Range(lastSync'.existing)
      w == lastSync'.writes
  IN (lastSync' # lastSync
        /\ \A i \in DOMAIN S : CarriesStore(S[i].id, storeId)) =>
       /\ read = {products[k] : k \in {d \in DOMAIN products :
                                         products[d].storeId = storeId}}
       /\ \A i \in DOMAIN w :
            w[i].op = "delete" => w[i].id \in {doc.id : doc \in read}
       /\ \A k \in DOMAIN products :
            products[k].storeId # storeId =>
              /\ k \in DOMAIN products'
              /\ products'[k] = products[k]
              /\ \A i \in DOMAIN w : w[i].id # k

\* C24: cross-store frame: syncProducts(storeId, S) reads only products
\* whose storeId field equals storeId and deletes only ids among those; a
\* persisted product of any other store is neither deleted nor overwritten,
\* provided every product of S carries that storeId in its id.
C24_CrossStoreFrame == [][CrossStoreFrame]_vars

\* C24 witness: syncProducts has returned for store 2, whose product was
\* added, while products of store 1 are persisted, one of them since an
\* earlier run
C24_Witness ==
  /\ lastSync.called /\ ~lastSync.threw
  /\ lastSync.storeId = StoreId(2)
  /\ lastSync.existing = <<>>
  /\ lastSync.added = 1
  /\ lastSync.removed = 0
  /\ \E k \in DOMAIN products :
       products[k].storeId = StoreId(1) /\ products[k].lastSeen = 0
  /\ \E k \in DOMAIN products : products[k].storeId = StoreId(2)

\* the results of scrape() before the first store
ZeroResults ==
  /\ scrape.results.stores = <<>>
  /\ scrape.results.totalProducts = 0
  /\ scrape.results.totalCategories = 0
  /\ scrape.results.totalAdded = 0
  /\ scrape.results.totalUpdated = 0
  /\ scrape.results.totalRemoved = 0

\* a step of scrape() adds to the results the values of the store whose
\* syncProducts has just returned, and nothing else
CountersStep ==
  LET r == scrape.results
      q == scrape'.results
      completed == /\ scrape.pc = "syncProducts"
                   /\ lastSync' # lastSync
                   /\ ~lastSync'.threw
  IN IF completed
     THEN /\ q.stores = Append(r.stores, CurrentStore)
          /\ q.totalAdded = r.totalAdded + lastSync'.added
          /\ q.totalUpdated = r.totalUpdated + lastSync'.updated
          /\ q.totalRemoved = r.totalRemoved + lastSync'.removed
          /\ q.totalProducts = r.totalProducts + Len(fetch.allProducts)
          /\ q.totalCategories = r.totalCategories + Len(scrape.categories)
          /\ scrape'.failed = scrape.failed
     ELSE /\ q = r
          /\ (scrape'.failed # scrape.failed =>
                /\ scrape'.failed = Append(scrape.failed, CurrentStore)
                /\ CurrentStore \notin Range(q.stores))

\* C25: run summary counters: when scrape() returns, totalAdded,
\* totalUpdated, totalRemoved, totalProducts and totalCategories are the
\* sums of the per-store values over exactly the stores whose processing
\* completed without exception (they start at zero and each completed
\* store adds its values once); a store whose processing threw contributes
\* to none of the totals and is absent from results.stores, even if some of
\* its writes were already applied.
C25_RunSummaryCounters ==
  /\ ZeroResults
  /\ [][CountersStep]_vars
  /\ [](Range(scrape.results.stores) \cap Range(scrape.failed) = {})

\* C25 witness: scrape() has returned; store 1 failed in syncProducts after
\* its save was applied, store 2 completed with one product added and one
\* category, and the totals are those of store 2 alone
C25_Witness ==
  /\ ScrapeReturned
  /\ scrape.failed = <<StoreId(1)>>
  /\ scrape.results.stores = <<StoreId(2)>>
  /\ \E k \in DOMAIN products :
       products[k].storeId = StoreId(1) /\ products[k].lastSeen > 0
  /\ scrape.results.totalAdded = 1
  /\ scrape.results.totalUpdated = 0
  /\ scrape.results.totalRemoved = 0
  /\ scrape.results.totalProducts = 1
  /\ scrape.results.totalCategories = 1

\* a page request of the fetch of the store failed
PageRequestFailed(storeId) ==
  /\ fetch.storeId = storeId
  /\ \E k \in DOMAIN remote[storeId] :
       /\ remote[storeId][k].status = 500
       /\ (k - 1) \in Range(fetch.requests)

\* the persisted products of a store that are not in a snapshot
Missing(storeId, S) ==
  {k \in DOMAIN products :
     products[k].storeId = storeId /\ products[k].id \notin Ids(S)}

PartialSnapshotSynced ==
  (/\ scrape.pc = "syncProducts"
   /\ lastSync' # lastSync
   /\ PageRequestFailed(CurrentStore)) =>
    /\ lastSync'.storeId = CurrentStore
    /\ lastSync'.snapshot = fetch.allProducts
    /\ (~lastSync'.threw =>
          /\ \A k \in Missing(CurrentStore, fetch.allProducts) :
               k \notin DOMAIN products'
          /\ lastSync'.removed
               = Cardinality(Missing(CurrentStore, fetch.allProducts))
          /\ Ids(lastSync'.removedProducts)
               = {products[k].id :
                    k \in Missing(CurrentStore, fetch.allProducts)})

\* after a failed page request the store goes on to syncProducts, unless a
\* persistence step before it throws
ReachesSyncProducts ==
  \A i \in 1..MaxStores :
    (/\ scrape.index = i
     /\ scrape.pc = "fetchAllProducts"
     /\ ~fetch.hasMorePages
     /\ PageRequestFailed(config[i])
     /\ ~faulty)
      ~> (/\ lastSync.called
          /\ lastSync.storeId = config[i]
          /\ config[i] \in Range(scrape.results.stores))

\* C27: a fetch error is not distinguished from the end of the catalog:
\* when a page request of a store fails, scrape() still calls syncProducts
\* with the partial (possibly empty) snapshot, so every persisted product
\* of that store that is not in the pages fetched so far is deleted and
\* counted as removed.
C27_FetchErrorRemoves == [][PartialSnapshotSynced]_vars /\ ReachesSyncProducts

\* C27 witness: the only page request of store 1 failed, syncProducts was
\* called with the empty snapshot and both persisted products of the store
\* were deleted and counted
C27_Witness ==
  /\ remote[StoreId(1)][1].status = 500
  /\ lastSync.called /\ ~lastSync.threw
  /\ lastSync.storeId = StoreId(1)
  /\ lastSync.snapshot = <<>>
  /\ Len(lastSync.existing) = 2
  /\ lastSync.removed = 2
  /\ \A k \in DOMAIN products : products[k].storeId # StoreId(1)
  /\ StoreId(1) \in Range(scrape.results.stores)

(***************************************************************************)
(* Properties of the notification dispatch.                                *)
(***************************************************************************)
\* the users whose chat is the given one
UsersOfChat(chatId) == {u \in DOMAIN users : users[u].chatId = chatId}

Flag(preferences, kind) ==
  CASE kind = "added" -> preferences.notifyOnNewProducts
    [] kind = "removed" -> preferences.notifyOnRemovedProducts
    [] kind = "priceChanged" -> preferences.notifyOnPriceChanges
    [] OTHER -> FALSE

\* C6: preference filtering: a notification of a kind is sent only to
\* recipients that are subscribed to the store of the event and whose flag
\* for that kind is true (notifyOnPriceChanges for price changes,
\* notifyOnNewProducts for added, notifyOnRemovedProducts for removed
\* products), whatever the other flags are.
C6_PreferenceFiltering ==
  \A k \in DOMAIN dispatch.sends :
    \E u \in UsersOfChat(dispatch.sends[k].chatId) :
      /\ dispatch.storeId \in prefs[u].subscribedStores
      /\ Flag(prefs[u], dispatch.kind)

\* C6 witness: a price-change dispatch is over; the user of the private
\* chat is subscribed and wants new and removed products but no price
\* changes and got nothing, while the other user got a message
C6_Witness ==
  /\ dispatch.pc = "returned"
  /\ dispatch.kind = "priceChanged"
  /\ StoreA \in prefs[PrivateUser].subscribedStores
  /\ prefs[PrivateUser].notifyOnNewProducts
  /\ prefs[PrivateUser].notifyOnRemovedProducts
  /\ ~prefs[PrivateUser].notifyOnPriceChanges
  /\ \A k \in DOMAIN dispatch.sends : dispatch.sends[k].chatId # PrivateUser
  /\ \E k \in DOMAIN dispatch.sends : dispatch.sends[k].chatId = GroupChat

\* C7: a permanent delivery failure deactivates the recipient: once a send
\* to a recipient has failed with 403 or with 400 'chat not found', the
\* user record of that recipient has isActive = false.
C7_PermanentFailureDeactivates ==
  \A k \in DOMAIN dispatch.sends :
    (dispatch.sends[k].method = "text"
       /\ Permanent(dispatch.sends[k].outcome)) =>
      \A u \in UsersOfChat(dispatch.sends[k].chatId) : ~users[u].isActive

\* C8: no retry after a permanent failure: once a send to a recipient has
\* failed permanently, no send is attempted to that recipient for the
\* remaining products of the same dispatch.
C8_NoSendAfterPermanentFailure ==
  \A k, l \in DOMAIN dispatch.sends :
    (/\ Permanent(dispatch.sends[k].outcome)
     /\ dispatch.sends[l].chatId = dispatch.sends[k].chatId)
      => dispatch.sends[l].product <= dispatch.sends[k].product


\* the sends attempted by the step that is being taken
NewSends == SubSeq(dispatch'.sends, Len(dispatch.sends) + 1,
                   Len(dispatch'.sends))

\* an answer of Telegram that is a success or a failure other than 403 and
\* 400 'chat not found'
NotPermanent(outcome) == outcome \notin {"403", "400 chat not found"}

\* the position of the send loop after the send to recipient j of product i
ContinuesAfter(d, e) ==
  IF d.j < Len(d.recipients)
  THEN e.pc = "sending" /\ e.i = d.i /\ e.j = d.j + 1
  ELSE IF d.i < Len(d.products)
  THEN e.pc = "sending" /\ e.i = d.i + 1 /\ e.j = 1
  ELSE e.pc = "returned"

TransientOrSuccessStep ==
  (dispatch.pc = "sending" /\ dispatch' # dispatch) =>
    /\ prefs' = prefs
    /\ (\A k \in DOMAIN NewSends : NotPermanent(NewSends[k].outcome))
         => users' = users
    /\ ContinuesAfter(dispatch, dispatch')
    /\ dispatch'.recipients = dispatch.recipients
    /\ dispatch'.products = dispatch.products

\* C19: transient failure and success change no state: a send that
\* succeeds, or that fails with a non-permanent error, leaves every user
\* and preference record unchanged, and the dispatch continues with the
\* next recipient and the next product.
C19_TransientChangesNothing == [][TransientOrSuccessStep]_vars

\* C19 witness: a dispatch of two products to two recipients is over; the
\* sends to the private chat failed with a server error, the group chat was
\* served after each of them and the second product after the first, and
\* the user of the private chat is still active
C19_Witness ==
  /\ dispatch.pc = "returned"
  /\ Len(dispatch.products) = 2
  /\ Len(dispatch.recipients) = 2
  /\ telegram[PrivateUser].text = "500"
  /\ telegram[GroupChat].text = "ok"
  /\ \E k, l, m \in DOMAIN dispatch.sends :
       /\ k < l /\ l < m
       /\ dispatch.sends[k].chatId = PrivateUser
       /\ dispatch.sends[k].method = "text"
       /\ dispatch.sends[k].outcome = "500"
       /\ dispatch.sends[k].product = 1
       /\ dispatch.sends[l].chatId = GroupChat
       /\ dispatch.sends[l].outcome = "ok"
       /\ dispatch.sends[l].product = 1
       /\ dispatch.sends[m].chatId = PrivateUser
       /\ dispatch.sends[m].product = 2
  /\ users[PrivateUser].isActive
  /\ dispatch.failureCount > 0
  /\ dispatch.successCount > 0

\* is the dispatch gated by the configuration?
Gated == ~notifyConfig.enabled \/ notifyConfig.environment = "development"

GatedStep ==
  Gated =>
    /\ users' = users
    /\ prefs' = prefs
    /\ dispatch'.sends = <<>>
    /\ dispatch'.pc \in {"idle", "returned"}
    /\ dispatch'.successCount = 0 /\ dispatch'.failureCount = 0

\* C21: notification gating by configuration: when the notifications-enabled
\* flag is false, or the environment is 'development', notifyProductsAdded,
\* notifyProductsRemoved and notifyPriceChanges invoke no channel send and
\* deactivate no recipient (development only logs previews).
C21_GatedByConfiguration ==
  /\ [][GatedStep]_vars
  /\ [](Gated => dispatch.sends = <<>> /\ dispatch.pc # "sending")

\* C21 witness: in development a call for two products with a recipient
\* who wants them, whose chat would answer 403, has returned after the
\* previews: nothing was sent and the user is still active
C21_Witness ==
  /\ notifyConfig.enabled
  /\ notifyConfig.environment = "development"
  /\ dispatch.pc = "returned"
  /\ Len(dispatch.products) = 2
  /\ dispatch.previewed = 2
  /\ \E j \in DOMAIN dispatch.recipients :
       dispatch.recipients[j].chatId = PrivateUser
  /\ telegram[PrivateUser].text = "403"
  /\ dispatch.sends = <<>>
  /\ users[PrivateUser].isActive

(***************************************************************************)
(* Properties of the paginated ingestion.                                  *)
(***************************************************************************)
FetchDone == fetch.storeId # <<>> /\ ~fetch.hasMorePages

\* the products of the pages requested so far, page after page
RECURSIVE ProductsOfPages(_, _, _)
ProductsOfPages(storeId, pages, n) ==
  IF n = 0 THEN <<>>
  ELSE ProductsOfPages(storeId, pages, n - 1)
       \o FetchProductsPage(storeId, PageAt(pages, n - 1))

PaginationInvariant ==
  LET n == Len(fetch.requests) IN
  fetch.storeId # <<>> =>
    /\ fetch.requests = [i \in 1..n |-> i - 1]
    /\ Len(fetch.yields) = n
    /\ \A i \in 1..(n - 1) : fetch.yields[i] >= PAGE_SIZE
    /\ fetch.hasMorePages => (n > 0 => fetch.yields[n] >= PAGE_SIZE)
    /\ ~fetch.hasMorePages => (n >= 1 /\ fetch.yields[n] < PAGE_SIZE)
    /\ fetch.allProducts =
         ProductsOfPages(fetch.storeId, remote[fetch.storeId], n)

\* C9: pagination termination: fetchAllProducts requests pages 0, 1, 2, ...
\* one at a time and stops at the first page that yields zero products or
\* fewer than PAGE_SIZE products (so a last page of exactly PAGE_SIZE
\* products is followed by exactly one more request, which comes back
\* empty); it terminates and returns every product of every page fetched.
C9_Pagination == []PaginationInvariant /\ <>FetchDone

\* C9 witness: a full page of PAGE_SIZE products, then the one extra request
\* that came back empty, and the run is over with the page's products
C9_Witness ==
  /\ FetchDone
  /\ fetch.requests = <<0, 1>>
  /\ fetch.yields = <<PAGE_SIZE, 0>>
  /\ Len(fetch.allProducts) = PAGE_SIZE

\* C10: HTTP 429: when a page request is answered with 429 the fetcher
\* waits once and ingestion of the store continues: the page after the
\* throttled one is still requested and its products are in the snapshot.
C10_ContinuesAfter429 ==
  FetchDone =>
    LET pages == remote[fetch.storeId] IN
    \A k \in DOMAIN pages :
      (pages[k].status = 429 /\ (k - 1) \in Range(fetch.requests)) =>
        /\ fetch.waits >= 1
        /\ (k + 1) \in DOMAIN pages =>
             /\ k \in Range(fetch.requests)
             /\ Range(FetchProductsPage(fetch.storeId, pages[k + 1]))
                  \subseteq Range(fetch.allProducts)

\* the products of the first n pages of a catalog, computed from the raw
\* responses
RECURSIVE ProductsBefore(_, _, _)
ProductsBefore(storeId, pages, n) ==
  IF n = 0 THEN <<>>
  ELSE ProductsBefore(storeId, pages, n - 1)
       \o (IF pages[n].status = 200 /\ pages[n].content.t = "array"
           THEN Normalize(storeId, pages[n].content.a) ELSE <<>>)

\* C11: a page-request error aborts only the ingestion of that store: when
\* the request of page k fails with an error other than 429, no page after
\* k is requested, fetchAllProducts returns (it does not throw) and what it
\* returns is exactly the products of pages 0..k-1.
C11_PageErrorAborts ==
  LET pages == remote[fetch.storeId] IN
  fetch.storeId # <<>> =>
    \A k \in DOMAIN pages :
      (pages[k].status = 500 /\ (k - 1) \in Range(fetch.requests)) =>
        /\ FetchDone
        /\ fetch.requests = [i \in 1..k |-> i - 1]
        /\ fetch.allProducts = ProductsBefore(fetch.storeId, pages, k - 1)

\* C11 witness: page 0 was a full page, the request of page 1 failed with
\* 500 and a page 2 exists; the run is over with the products of page 0
C11_Witness ==
  /\ FetchDone
  /\ Len(remote[fetch.storeId]) >= 3
  /\ remote[fetch.storeId][2].status = 500
  /\ remote[fetch.storeId][3].status = 200
  /\ fetch.requests = <<0, 1>>
  /\ Len(fetch.allProducts) = PAGE_SIZE

(***************************************************************************)
(* Properties of fetchProductsPage: the normalizer.                        *)
(***************************************************************************)
\* the raw items of the page that was requested first
PageContent == remote[fetch.storeId][1].content.a

PageRequested == fetch.storeId # <<>> /\ fetch.requests # <<>>

\* the malformed items, as the claim lists them
Malformed(item) ==
  \/ item.t = "null"
  \/ item.offers.t # "array"
  \/ item.offers.a = <<>>
  \/ item.title.t = "undefined"

WellFormed(item) == ~Malformed(item)

\* the offers of a sequence of items, each with the title of its item
RECURSIVE OffersOf(_)
OffersOf(items) ==
  IF items = <<>> THEN <<>>
  ELSE [i \in DOMAIN Head(items).offers.a |->
          [title |-> Head(items).title, offer |-> Head(items).offers.a[i],
           item |-> Head(items)]]
       \o OffersOf(Tail(items))

\* C16: malformed items are skipped, not fatal: an item that is null, has
\* no offer list, has an empty offer list or has no title contributes no
\* product and raises no exception (the call ends normally with the
\* products of the page), and every other item of the page is still
\* normalized, in order; a page of 5 single-offer items with one offer-less
\* item yields 4 products.
C16_MalformedSkipped ==
  PageRequested =>
    LET kept == OffersOf(SelectSeq(PageContent, WellFormed))
    IN /\ FetchDone
       /\ fetch.requests = <<0>>
       /\ Len(fetch.allProducts) = Len(kept)
       /\ \A i \in DOMAIN kept :
            /\ fetch.allProducts[i].name = kept[i].title
            /\ fetch.allProducts[i].price.current = kept[i].offer.price
       /\ (PageContent = FiveItemPage => Len(fetch.allProducts) = 4)

\* C16 witness: the page of five items, one of them without offers, has
\* been normalized to four products
C16_Witness ==
  /\ PageRequested
  /\ FetchDone
  /\ PageContent = FiveItemPage
  /\ Len(fetch.allProducts) = 4

\* C17: items with a missing price are excluded: an offer whose price is
\* missing never becomes a product of the snapshot.
C17_MissingPriceExcluded ==
  PageRequested =>
    \A i \in DOMAIN fetch.allProducts :
      fetch.allProducts[i].price.current.t = "number"

\* C18: identity stability and one product per offer: a valid item with n
\* offers yields exactly n products, each with id = storeId + '-' +
\* offerUuid, so the same raw offer of the same store normalized twice
\* yields the same id, and two offers with different offerUuid yield
\* different ids.
C18_OneProductPerOffer ==
  PageRequested =>
    LET kept == OffersOf(SelectSeq(PageContent, ValidItem))
        P == fetch.allProducts
    IN /\ Len(P) = Len(kept)
       /\ \A i \in DOMAIN kept :
            P[i].id = fetch.storeId \o <<"-">> \o kept[i].offer.offerUuid
       /\ \A i, j \in DOMAIN kept :
            (P[i].id = P[j].id)
              <=> (kept[i].offer.offerUuid = kept[j].offer.offerUuid)

\* C18 witness: an item with two offers, normalized twice in one page: four
\* products, two ids
C18_Witness ==
  /\ PageRequested
  /\ PageContent = <<TwoOfferItem(0, 1), TwoOfferItem(0, 1)>>
  /\ Len(fetch.allProducts) = 4
  /\ Cardinality(Ids(fetch.allProducts)) = 2
  /\ fetch.allProducts[1].id = fetch.allProducts[3].id
  /\ fetch.allProducts[1].id # fetch.allProducts[2].id

(***************************************************************************)
(* Properties of the store-list synchronization.                           *)
(***************************************************************************)
StoresKept ==
  \A k \in DOMAIN stores :
    /\ k \in DOMAIN stores'
    /\ (k \notin storeSync'.activeStoreIds => stores'[k] = stores[k])

\* C20: stores are never deleted: no sequence of syncAllStores and
\* syncStore calls removes a store document; a store present in persistence
\* but absent from the fetched store list stays persisted with its fields
\* unchanged.
C20_StoresNeverDeleted == [][StoresKept]_vars

\* C20 witness: syncAllStores has returned for a list without store 1, which
\* was persisted by an earlier call; it is counted as skipped and its
\* document is the one of that earlier call
C20_Witness ==
  /\ storeSync.call = "syncAllStores"
  /\ storeSync.activeStoreIds = {StoreId(2)}
  /\ storeSync.skipped = 1
  /\ storeSync.added = 1
  /\ StoreId(1) \in DOMAIN stores
  /\ StoreId(2) \in DOMAIN stores
  /\ stores[StoreId(1)].lastSync < stores[StoreId(2)].lastSync

\* the images the fallback chain of the claim gives an item
FallbackImages(item) ==
  IF item.media.t = "array" /\ Len(item.media.a) > 0 THEN item.media.a
  ELSE IF item.heroImage.t = "string" THEN <<item.heroImage>>
  ELSE <<>>

\* C22: image fallback chain: the images of a product are the media urls of
\* the item when it has any, otherwise the single hero image when the item
\* has one, otherwise the empty list; an item with an empty media list and
\* a hero image gets [heroImage].
C22_ImageFallback ==
  PageRequested =>
    LET kept == OffersOf(SelectSeq(PageContent, WellFormed))
    IN \A i \in DOMAIN kept :
         i \in DOMAIN fetch.allProducts
           => fetch.allProducts[i].images = FallbackImages(kept[i].item)

(***************************************************************************)
(* Properties of the category synchronization.                             *)
(***************************************************************************)
\* the keys of the persisted categories of a store
CategoriesOf(coll, storeId) ==
  {k \in DOMAIN coll : coll[k].storeId = storeId}

CategoriesReplaced ==
  categorySync' # categorySync =>
    LET storeId == categorySync'.storeId
        C == categorySync'.categories
    IN /\ CategoriesOf(categories', storeId)
            = {storeId \o <<"-">> \o C[i].id : i \in DOMAIN C}
       /\ \A i \in DOMAIN C :
            LET doc == categories'[storeId \o <<"-">> \o C[i].id]
            IN /\ doc.id = C[i].id
               /\ doc.name = C[i].name
               /\ doc.description = C[i].description
               /\ doc.storeId = storeId
       /\ \A k \in DOMAIN categories :
            categories[k].storeId # storeId =>
              k \in DOMAIN categories' /\ categories'[k] = categories[k]
       /\ \A k \in DOMAIN categories' :
            categories'[k].storeId # storeId => k \in DOMAIN categories
       /\ (categorySync'.status # 200 =>
             C = <<>> /\ CategoriesOf(categories', storeId) = {})

\* C28: category sync replaces the categories of the store: after
\* syncCategories(storeId, C) returns normally, the persisted categories
\* whose storeId is storeId are exactly those of C, each under key storeId
\* + '-' + categoryId, and the categories of every other store are
\* unchanged; when the category fetch fails, fetchCategories returns the
\* empty list and the persisted categories of the store are all deleted.
C28_CategoriesReplaced == [][CategoriesReplaced]_vars

\* C28 witness: the category request of store 1 failed while two categories
\* of the store were persisted: none is left, and those of store 2 are
\* still there
C28_Witness ==
  /\ categorySync.called
  /\ categorySync.storeId = StoreA
  /\ categorySync.status = 500
  /\ categorySync.persistedBefore = 2
  /\ CategoriesOf(categories, StoreA) = {}
  /\ Cardinality(CategoriesOf(categories, StoreB)) = 2


(***************************************************************************)
(* Properties of BotUserService: who is selected for a store.              *)
(***************************************************************************)
\* the step is a call `name` of the service
Called(name) ==
  /\ Len(bot'.log) = Len(bot.log) + 1
  /\ bot'.log[Len(bot'.log)].op = name

\* the users the claim lets getUsersSubscribedToStore(storeId) return
Selected(storeId) ==
  {u \in DOMAIN prefs : /\ storeId \in prefs[u].subscribedStores
                        /\ u \in DOMAIN users
                        /\ users[u].isActive}

SelectionStep ==
  /\ Called("getUsersSubscribedToStore") =>
       \E order \in Orders(Selected(bot'.log[Len(bot'.log)].storeId)) :
         bot'.log[Len(bot'.log)].result =
           [i \in DOMAIN order |-> users[order[i]].chatId]
  /\ Called("deactivateUser") =>
       ~users'[bot'.log[Len(bot'.log)].userId].isActive
  /\ \A u \in DOMAIN users :
       (~users[u].isActive /\ users'[u].isActive) =>
         /\ Called("getOrCreateUser")
         /\ bot'.log[Len(bot'.log)].userId = u

\* C29: getUsersSubscribedToStore(storeId) returns one chat id for each user
\* whose preferences list the store and whose record is active, and for no
\* other user; deactivateUser leaves the user inactive, and an inactive user
\* becomes active again only by a getOrCreateUser call for that user.
C29_InactiveNeverSelected == [][SelectionStep]_vars

\* C29 witness: the user of the private chat, subscribed to StoreA, was
\* deactivated; the selection for StoreA that followed returned only the
\* group chat; then getOrCreateUser made the user active again.
C29_Witness ==
  /\ Len(bot.log) = 3
  /\ bot.log[1].op = "deactivateUser" /\ bot.log[1].userId = PrivateUser
  /\ bot.log[2].op = "getUsersSubscribedToStore"
  /\ bot.log[2].storeId = StoreA
  /\ StoreA \in prefs[PrivateUser].subscribedStores
  /\ bot.log[2].result = <<GroupChat>>
  /\ bot.log[3].op = "getOrCreateUser" /\ bot.log[3].userId = PrivateUser
  /\ users[PrivateUser].chatId = PrivateUser
  /\ users[PrivateUser].isActive


(***************************************************************************)
(* Properties of the preference mutations of interleaved handlers.         *)
(***************************************************************************)
\* does the preference document show the mutation?
Reflects(doc, op) ==
  CASE op.name = "subscribeToStore" -> op.storeId \in doc.subscribedStores
    [] op.name = "unsubscribeFromStore" ->
         op.storeId \notin doc.subscribedStores
    [] OTHER -> doc.notifyOnPriceChanges = op.value

\* C30: when two preference mutations for the same user have both been
\* handled, whatever the interleaving of their reads and saves, the
\* preference document of the user reflects both mutations.
C30_NoLostUpdate ==
  \A g, h \in DOMAIN bot.handlers :
    (/\ g # h
     /\ bot.handlers[g].userId = bot.handlers[h].userId
     /\ bot.handlers[g].pc = "done"
     /\ bot.handlers[h].pc = "done")
      => /\ Reflects(prefs[bot.handlers[g].userId], bot.handlers[g].op)
         /\ Reflects(prefs[bot.handlers[h].userId], bot.handlers[h].op)

====
